---- MODULE Spec2Model ----
(***************************************************************************)
(* A model of hftools' labeled arrays (hftools/dataset/arrayobj.py): the   *)
(* dimension collection (Dims, DimsList), the alignment algorithm          *)
(* (dims_union, change_shape, make_same_dims), the axis resolvers          *)
(* (axis_handler, multiple_axis_handler) and the _hfarray operations.      *)
(*                                                                         *)
(* A labeled array is a record [dims, shape, data]: dims is the sequence   *)
(* of dimension descriptors, shape the buffer's shape, data the buffer's   *)
(* elements in C (row-major) order.  Python positions are kept 0-based     *)
(* (and may be negative); TLA+ sequences are 1-based, so a position i is   *)
(* read as s[i + 1].                                                       *)
(*                                                                         *)
(* hftools/dataset/dim.py is not part of the sources at hand: descriptors, *)
(* their identity, their sort priority and their slicing follow the        *)
(* written specification (sections 3 and 4.1).                             *)
(*                                                                         *)
(* The last section is the block grouping of the SP-data reader            *)
(* (ReadSPFileFormat.group_blocks, hftools/file_formats/spdata.py), a      *)
(* generator taken statement by statement over a stream of tokens.         *)
(***************************************************************************)
EXTENDS Integers, Sequences, FiniteSets, TLC

VARIABLES
    A,      \* the labeled array the next operation is called on
    B,      \* a second labeled array (the other operand)
    call,   \* the last call: its name, its arguments and the array it was called on
    ret,    \* what the last call returned or raised
    nops    \* number of operations applied so far

vars == <<A, B, call, ret, nops>>

-----------------------------------------------------------------------------
(* Bounds of the model *)

\* largest rank of an array handed to the operations at the start
MaxRank == 2
\* longest chain of operations applied one after the other
MaxOps == 2
\* a running product is taken of at most MaxFactor elements, of magnitude at
\* most MaxFactor
MaxFactor == 6
\* longest stream of tokens handed to group_blocks
MaxTokens == 4

-----------------------------------------------------------------------------
(* Python and sequence helpers *)

Range(s) == {s[k] : k \in 1..Len(s)}

RECURSIVE Prod(_)
Prod(s) == IF s = <<>> THEN 1 ELSE Head(s) * Prod(Tail(s))

RECURSIVE SumSeq(_)
SumSeq(s) == IF s = <<>> THEN 0 ELSE Head(s) + SumSeq(Tail(s))

\* s[i] of a Python tuple or list is defined for -len(s) <= i < len(s)
PyValidIndex(n, i) == i >= -n /\ i < n
PyNorm(n, i) == IF i < 0 THEN i + n ELSE i
PyItem(s, i) == s[PyNorm(Len(s), i) + 1]

\* s[:k] and s[k:] for a non-negative k
PyTake(s, k) == SubSeq(s, 1, IF k > Len(s) THEN Len(s) ELSE k)
PyDrop(s, k) == SubSeq(s, k + 1, Len(s))

\* the positions lo..hi-1 (0-based) a slice(start, stop) selects in a sequence
\* of length n; a bound is [none |-> TRUE] or [none |-> FALSE, v |-> integer]
SliceClip(n, v) == IF v < 0 THEN (IF v + n < 0 THEN 0 ELSE v + n)
                   ELSE (IF v > n THEN n ELSE v)
SliceLo(n, sl) == IF sl.start.none THEN 0 ELSE SliceClip(n, sl.start.v)
SliceHi(n, sl) == IF sl.stop.none THEN n ELSE SliceClip(n, sl.stop.v)
SliceLen(n, sl) == IF SliceHi(n, sl) > SliceLo(n, sl)
                   THEN SliceHi(n, sl) - SliceLo(n, sl) ELSE 0
PySlice(s, sl) == [k \in 1..SliceLen(Len(s), sl) |-> s[SliceLo(Len(s), sl) + k]]

None == [v |-> 0, none |-> TRUE]
Some(v) == [v |-> v, none |-> FALSE]
FullSlice == [start |-> None, stop |-> None]

\* list.insert(i, e)
PyInsert(s, i, e) ==
    LET n == Len(s)
        p == IF i < 0 THEN (IF i + n < 0 THEN 0 ELSE i + n)
             ELSE (IF i > n THEN n ELSE i)
    IN  SubSeq(s, 1, p) \o <<e>> \o SubSeq(s, p + 1, n)

-----------------------------------------------------------------------------
(* Results: a call returns a value or raises *)

NoVal == [dims |-> <<>>, shape |-> <<>>, data |-> <<>>]
\* kind: "hfarray" (a labeled array), "ndarray" (a plain buffer), "scalar"
Return(kind, v) == [kind |-> kind, ok |-> TRUE, val |-> v, err |-> "none"]
Raise(e) == [kind |-> "error", ok |-> FALSE, val |-> NoVal, err |-> e]
NoRet == [kind |-> "none", ok |-> TRUE, val |-> NoVal, err |-> "none"]

-----------------------------------------------------------------------------
(* The buffer: numpy's ndarray, as [shape, data] with data in C order *)

\* coordinate (0-based, one entry per axis) of the k-th element (0-based)
Unflat(shape, k) ==
    [i \in 1..Len(shape) |->
        (k \div Prod(SubSeq(shape, i + 1, Len(shape)))) % shape[i]]

Flat(shape, c) ==
    SumSeq([i \in 1..Len(shape) |-> c[i] * Prod(SubSeq(shape, i + 1, Len(shape)))])

\* the element of buffer a at coordinate c
At(a, c) == a.data[Flat(a.shape, c) + 1]

NdArray(shape, data) == [dims |-> <<>>, shape |-> shape, data |-> data]

\* ndarray.transpose(*order): order must be a permutation of the axes
IsPermutation(n, order) ==
    /\ Len(order) = n
    /\ \A k \in 1..n : PyValidIndex(n, order[k])
    /\ \A j \in 0..(n - 1) : \E k \in 1..n : PyNorm(n, order[k]) = j

nd_transpose(a, order) ==
    LET n == Len(a.shape)
        ord == [k \in 1..n |-> PyNorm(n, order[k])]
        newshape == [k \in 1..n |-> a.shape[ord[k] + 1]]
    IN  [a EXCEPT
            !.shape = newshape,
            !.data = [f \in 1..Prod(newshape) |->
                        LET c == Unflat(newshape, f - 1)
                            src == [j \in 1..n |-> c[CHOOSE k \in 1..n : ord[k] = j - 1]]
                        IN  At(a, src)]]

\* a.shape = newshape (no element is moved: the C order is kept)
nd_reshape(a, newshape) == [a EXCEPT !.shape = newshape]

\* positions (1-based) of a sequence that are kept by a predicate on positions
RECURSIVE KeepPos(_, _)
KeepPos(n, keep) ==
    IF n = 0 THEN <<>>
    ELSE IF n \in keep THEN Append(KeepPos(n - 1, keep), n) ELSE KeepPos(n - 1, keep)

Pick(s, keep) == LET p == KeepPos(Len(s), keep) IN [k \in 1..Len(p) |-> s[p[k]]]

\* ndarray.squeeze(axis): axis is a sequence of positions whose size must be 1
nd_squeeze_ok(a, axes) ==
    LET n == Len(a.shape)
    IN  /\ \A k \in 1..Len(axes) : PyValidIndex(n, axes[k])
        /\ \A k, l \in 1..Len(axes) :
              k # l => PyNorm(n, axes[k]) # PyNorm(n, axes[l])
        /\ \A k \in 1..Len(axes) : PyItem(a.shape, axes[k]) = 1

nd_squeeze(a, axes) ==
    LET n == Len(a.shape)
        gone == {PyNorm(n, axes[k]) + 1 : k \in 1..Len(axes)}
    IN  [a EXCEPT !.shape = Pick(a.shape, (1..n) \ gone)]

\* ndarray.squeeze(axis=None): every axis of size 1 goes
nd_squeeze_all(a) ==
    [a EXCEPT !.shape = Pick(a.shape, {k \in 1..Len(a.shape) : a.shape[k] # 1})]

\* np.asarray(a).sum(axes, keepdims=True): axes is a sequence of positions;
\* min and max have no value over an axis of size 0
nd_reduce_ok(func, a, axes) ==
    LET n == Len(a.shape)
    IN  /\ \A k \in 1..Len(axes) : PyValidIndex(n, axes[k])
        /\ \A k, l \in 1..Len(axes) :
              k # l => PyNorm(n, axes[k]) # PyNorm(n, axes[l])
        /\ func # "sum" => \A k \in 1..Len(axes) : PyItem(a.shape, axes[k]) # 0

\* the reduction of the elements of a at the coordinates cs
RECURSIVE ReduceOver(_, _, _)
ReduceOver(func, a, cs) ==
    IF cs = {} THEN 0
    ELSE
    LET c0 == CHOOSE c \in cs : TRUE
        rest == cs \ {c0}
    IN  IF rest = {} THEN At(a, c0)
        ELSE LET v == ReduceOver(func, a, rest)
             IN  CASE func = "sum" -> At(a, c0) + v
                   [] func = "max" -> IF At(a, c0) > v THEN At(a, c0) ELSE v
                   [] func = "min" -> IF At(a, c0) < v THEN At(a, c0) ELSE v

\* np.asarray(a).sum(axes, keepdims=True), and max and min alike
nd_reduce_keepdims(func, a, axes) ==
    LET n == Len(a.shape)
        red == {PyNorm(n, axes[k]) + 1 : k \in 1..Len(axes)}
        newshape == [k \in 1..n |-> IF k \in red THEN 1 ELSE a.shape[k]]
        all == {Unflat(a.shape, f) : f \in 0..(Prod(a.shape) - 1)}
    IN  [a EXCEPT
            !.shape = newshape,
            !.data = [f \in 1..Prod(newshape) |->
                        LET c == Unflat(newshape, f - 1)
                        IN  ReduceOver(func, a, {d \in all :
                                \A k \in 1..n : k \notin red => d[k] = c[k]})]]

AllAxes(a) == [k \in 1..Len(a.shape) |-> k - 1]

-----------------------------------------------------------------------------
(* Dimension descriptors (hftools/dataset/dim.py) *)

Classes == {"DimSweep", "DimRep", "DimMatrix_i", "DimMatrix_j", "DimAnonymous"}

Dim(cls, name, data) == [data |-> data, cls |-> cls, name |-> name]

\* range(n)
PyRange(n) == [k \in 1..n |-> k - 1]

\* isinstance(d, cls): every descriptor is a DimBase
IsInstance(d, cls) == cls = "DimBase" \/ d.cls = cls

\* the class attribute sortprio
sortprio(d) ==
    CASE d.cls = "DimSweep" -> 0
      [] d.cls = "DimRep" -> 1
      [] d.cls = "DimMatrix_i" -> 1000
      [] d.cls = "DimMatrix_j" -> 1001
      [] d.cls = "DimAnonymous" -> 2000
      [] OTHER -> 0

\* d == e: two descriptors are the same dimension iff name and variant match
DimEq(d, e) == d.name = e.name /\ d.cls = e.cls

\* d[slice]: same name and variant, the coordinates sliced
DimGetSlice(d, sl) == Dim(d.cls, d.name, PySlice(d.data, sl))

\* tuple.index(d): position of the first member equal to d
HasEq(dims, d) == \E k \in 1..Len(dims) : DimEq(dims[k], d)
IndexEq(dims, d) ==
    (CHOOSE k \in 1..Len(dims) :
        DimEq(dims[k], d) /\ \A l \in 1..(k - 1) : ~DimEq(dims[l], d)) - 1

-----------------------------------------------------------------------------
(* Dims and DimsList: the dimension collection *)

\* Dims.__contains__(value) for a descriptor
Dims_contains(dims, value) ==
    \E k \in 1..Len(dims) :
        dims[k].name = value.name /\ IsInstance(dims[k], value.cls)

\* Dims.__contains__(value) for a string: the probe is DimBase(value, 1)
Dims_contains_name(dims, name) ==
    Dims_contains(dims, Dim("DimBase", name, <<0>>))

\* Dims.matching_index(value), where a member matches (KeyError otherwise)
matching_index(dims, value) ==
    (CHOOSE k \in 1..Len(dims) :
        /\ dims[k].name = value.name /\ IsInstance(dims[k], value.cls)
        /\ \A l \in 1..(k - 1) :
              ~(dims[l].name = value.name /\ IsInstance(dims[l], value.cls))) - 1

\* DimsList.__contains__(value)
DimsList_contains(newinfo, value) ==
    \E k \in 1..Len(newinfo) :
        newinfo[k].name = value.name /\ IsInstance(newinfo[k], value.cls)

-----------------------------------------------------------------------------
(* dims_union *)

\* for dim in B.dims: if dim not in newinfo: newinfo.append(dim)
RECURSIVE AppendNew(_, _)
AppendNew(newinfo, dims) ==
    IF dims = <<>> THEN newinfo
    ELSE AppendNew(IF DimsList_contains(newinfo, Head(dims)) THEN newinfo
                   ELSE Append(newinfo, Head(dims)),
                   Tail(dims))

\* a faulty variant of SortInsert: an element goes before the elements of equal key
SortInsertUnstable(sorted, e) ==
    LET before == {k \in 1..Len(sorted) : sortprio(sorted[k]) < sortprio(e)}
        p == Cardinality(before)
    IN  SubSeq(sorted, 1, p) \o <<e>> \o SubSeq(sorted, p + 1, Len(sorted))

\* list.sort(key=sortprio) is stable: an element goes after the elements of equal key
SortInsert(sorted, e) ==
    LET before == {k \in 1..Len(sorted) : sortprio(sorted[k]) <= sortprio(e)}
        p == Cardinality(before)
    IN  SubSeq(sorted, 1, p) \o <<e>> \o SubSeq(sorted, p + 1, Len(sorted))

RECURSIVE SortByPrio(_)
SortByPrio(s) ==
    IF s = <<>> THEN <<>>
    ELSE SortInsert(SortByPrio(SubSeq(s, 1, Len(s) - 1)), s[Len(s)])

RECURSIVE UnionFold(_, _)
UnionFold(newinfo, rest) ==
    IF rest = <<>> THEN newinfo
    ELSE UnionFold(AppendNew(newinfo, Head(rest).dims), Tail(rest))

\* dims_union(*a), a a non-empty sequence of labeled arrays
dims_union(a) == SortByPrio(UnionFold(a[1].dims, Tail(a)))

-----------------------------------------------------------------------------
(* _hfarray: construction, the dims property, view, transpose *)

\* a faulty variant of verify_dimension: the check is gone
verify_dimension_off(a) == TRUE

\* verify_dimension passes (it raises HFArrayShapeDimsMismatchError otherwise)
verify_dimension(a) == Len(a.dims) = Len(a.shape)

\* a faulty variant of default_dims: default_dim as it stands, not sized
default_dims_unsized(shape) ==
    [k \in 1..Len(shape) |->
        IF k = 1 THEN Dim("DimSweep", "freq", <<0>>) ELSE Dim("DimRep", "rep", <<0>>)]

\* default_dim, sized to the buffer's axes
default_dims(shape) ==
    [k \in 1..Len(shape) |->
        IF k = 1 THEN Dim("DimSweep", "freq", PyRange(shape[1]))
        ELSE Dim("DimRep", "rep", PyRange(shape[2]))]

\* _hfarray.__new__(data, dims): labeled says that data has a dims attribute;
\* dims is None or Some(collection)
hfarray_new(data, labeled, dims) ==
    IF dims.none /\ ~labeled /\ Len(data.shape) > 2
    THEN Raise("DimensionMismatchError")
    ELSE LET d == IF ~dims.none THEN dims.v
                  ELSE IF labeled THEN data.dims
                  ELSE IF Len(data.shape) = 0 THEN <<>>
                  ELSE default_dims(data.shape)
             subarr == [dims |-> d, shape |-> data.shape, data |-> data.data]
         IN  IF verify_dimension(subarr) THEN Return("hfarray", subarr)
             ELSE Raise("HFArrayShapeDimsMismatchError")

\* the dims setter: self._dims = Dims(value)
set_dims(self, value) == [self EXCEPT !.dims = value]

\* _hfarray.view()
view(self) == hfarray_new(self, TRUE, Some(self.dims))

\* a faulty variant of transpose: the buffer is permuted, the dimensions are not
transpose_dims_kept(self, order) ==
    LET n == Len(self.shape)
        ord == IF order = <<>> THEN [k \in 1..n |-> n - k] ELSE order
    IN  IF ~IsPermutation(n, ord) THEN Raise("ValueError")
        ELSE hfarray_new(nd_transpose(self, ord), TRUE, Some(self.dims))

\* _hfarray.transpose(*order)
transpose(self, order) ==
    LET n == Len(self.shape)
        ord == IF order = <<>> THEN [k \in 1..n |-> n - k] ELSE order
    IN  IF ~IsPermutation(n, ord) THEN Raise("ValueError")
        ELSE IF \E k \in 1..Len(ord) : ~PyValidIndex(Len(self.dims), ord[k])
        THEN Raise("IndexError")
        ELSE hfarray_new(nd_transpose(self, ord), TRUE,
                         Some([k \in 1..Len(ord) |-> PyItem(self.dims, ord[k])]))

-----------------------------------------------------------------------------
(* change_shape, make_same_dims *)

\* the positions, in the order of newdims, of the dimensions x owns
RECURSIVE NewOrder(_, _)
NewOrder(x, newdims) ==
    IF newdims = <<>> THEN <<>>
    ELSE (IF Dims_contains(x.dims, Head(newdims))
          THEN <<matching_index(x.dims, Head(newdims))>> ELSE <<>>)
         \o NewOrder(x, Tail(newdims))

NewSelfShape(x, newdims) ==
    [k \in 1..Len(newdims) |->
        IF Dims_contains(x.dims, newdims[k])
        THEN x.shape[matching_index(x.dims, newdims[k]) + 1] ELSE 1]

\* a faulty variant of change_shape: the axes are not transposed into the order of newdims
change_shape_no_transpose(x, newdims) ==
    LET v == view(x)
        newselfshape == NewSelfShape(x, newdims)
    IN  IF ~v.ok THEN v
        ELSE IF Prod(newselfshape) # Prod(v.val.shape) THEN Raise("ValueError")
        ELSE Return("hfarray", set_dims(nd_reshape(v.val, newselfshape), newdims))

\* change_shape(x, newdims)
change_shape(x, newdims) ==
    LET v == view(x)
    IN  IF ~v.ok THEN v
        ELSE LET t == transpose(v.val, NewOrder(x, newdims))
                 newselfshape == NewSelfShape(x, newdims)
             IN  IF ~t.ok THEN t
                 ELSE IF Prod(newselfshape) # Prod(t.val.shape) THEN Raise("ValueError")
                 ELSE Return("hfarray",
                             set_dims(nd_reshape(t.val, newselfshape), newdims))

\* make_same_dims_list(a): a sequence of results, one per array
make_same_dims_list(a) ==
    LET newdims == dims_union(a)
    IN  [k \in 1..Len(a) |-> change_shape(a[k], newdims)]

\* a faulty variant of make_same_dims: the operands are handed over in the other order
make_same_dims_swapped(a, b) ==
    LET r == make_same_dims_list(<<b, a>>) IN <<r[2], r[1]>>

\* make_same_dims(A, B) for a labeled B
make_same_dims(a, b) == make_same_dims_list(<<a, b>>)

-----------------------------------------------------------------------------
(* The axis resolver *)

\* An axis specifier: an integer position, a dimension name, a dimension class
\* (variant tag) or a dimension instance
NoDim == Dim("DimBase", "", <<>>)
AxInt(i) == [k |-> "int", i |-> i, cls |-> "", name |-> "", dim |-> NoDim]
AxName(s) == [k |-> "name", i |-> 0, cls |-> "", name |-> s, dim |-> NoDim]
AxCls(c) == [k |-> "cls", i |-> 0, cls |-> c, name |-> "", dim |-> NoDim]
AxDim(d) == [k |-> "dim", i |-> 0, cls |-> "", name |-> "", dim |-> d]

\* An axis argument: None, one specifier, or a tuple/list of specifiers
AxisNone == [kind |-> "none", items |-> <<>>]
AxisOne(s) == [kind |-> "one", items |-> <<s>>]
AxisSeq(ss) == [kind |-> "seq", items |-> ss]

ErrNotPresent == "IndexError: dimension not present in dims"
ErrSeveral == "IndexError: There are several present"
ErrNotValid == "IndexError: not a valid dimension"
ErrNoName == "IndexError: Can not find AxisObject with name"
ErrTupleIndex == "IndexError: tuple index out of range"

IsIndexError(e) ==
    e \in {ErrNotPresent, ErrSeveral, ErrNotValid, ErrNoName, ErrTupleIndex}

\* _hfarray.dims_index(name): the first position whose name is name
HasName(dims, name) == \E k \in 1..Len(dims) : dims[k].name = name
dims_index(dims, name) ==
    (CHOOSE k \in 1..Len(dims) :
        dims[k].name = name /\ \A l \in 1..(k - 1) : dims[l].name # name) - 1

\* the members that are instances of cls, and their positions
OfClass(dims, cls) == {k \in 1..Len(dims) : IsInstance(dims[k], cls)}

\* a faulty variant of axis_handler: a class that matches several members gives the first
axis_handler_first(a, axis) ==
    CASE axis.k = "int" ->
            IF PyValidIndex(Len(a.dims), axis.i)
            THEN Return("dim", PyItem(a.dims, axis.i)) ELSE Raise(ErrTupleIndex)
      [] axis.k = "name" ->
            IF HasName(a.dims, axis.name)
            THEN Return("dim", a.dims[dims_index(a.dims, axis.name) + 1])
            ELSE Raise(ErrNoName)
      [] axis.k = "cls" ->
            LET outaxis == Pick(a.dims, OfClass(a.dims, axis.cls))
            IN  IF Len(outaxis) = 0 THEN Raise(ErrNotPresent)
                ELSE Return("dim", outaxis[1])
      [] OTHER ->
            IF Dims_contains(a.dims, axis.dim) THEN Return("dim", axis.dim)
            ELSE Raise(ErrNotValid)

\* axis_handler(a, axis) for an axis that is not None
axis_handler(a, axis) ==
    CASE axis.k = "int" ->
            IF PyValidIndex(Len(a.dims), axis.i)
            THEN Return("dim", PyItem(a.dims, axis.i)) ELSE Raise(ErrTupleIndex)
      [] axis.k = "name" ->
            IF HasName(a.dims, axis.name)
            THEN Return("dim", a.dims[dims_index(a.dims, axis.name) + 1])
            ELSE Raise(ErrNoName)
      [] axis.k = "cls" ->
            LET outaxis == Pick(a.dims, OfClass(a.dims, axis.cls))
            IN  IF Len(outaxis) = 0 THEN Raise(ErrNotPresent)
                ELSE IF Len(outaxis) = 1 THEN Return("dim", outaxis[1])
                ELSE Raise(ErrSeveral)
      [] OTHER ->
            IF Dims_contains(a.dims, axis.dim) THEN Return("dim", axis.dim)
            ELSE Raise(ErrNotValid)

Axes(outaxis, outidx) == [none |-> FALSE, dims |-> outaxis, idx |-> outidx]
AxesNone == [none |-> TRUE, dims |-> <<>>, idx |-> <<>>]

\* one turn of the loop of multiple_axis_handler: acc is the result so far
MultiStep(a, acc, ax) ==
    IF ~acc.ok THEN acc
    ELSE
    CASE ax.k = "int" ->
            IF PyValidIndex(Len(a.dims), ax.i)
            THEN Return("axes", Axes(Append(acc.val.dims, PyItem(a.dims, ax.i)),
                                     Append(acc.val.idx, ax.i)))
            ELSE Raise(ErrTupleIndex)
      [] ax.k = "name" ->
            IF HasName(a.dims, ax.name)
            THEN LET d == a.dims[dims_index(a.dims, ax.name) + 1]
                 IN  Return("axes", Axes(Append(acc.val.dims, d),
                                         Append(acc.val.idx, IndexEq(a.dims, d))))
            ELSE Raise(ErrNoName)
      [] ax.k = "cls" ->
            LET pos == KeepPos(Len(a.dims), OfClass(a.dims, ax.cls))
            IN  Return("axes", Axes(acc.val.dims \o [k \in 1..Len(pos) |-> a.dims[pos[k]]],
                                    acc.val.idx \o [k \in 1..Len(pos) |-> pos[k] - 1]))
      [] OTHER ->
            IF Dims_contains(a.dims, ax.dim)
            THEN IF HasEq(a.dims, ax.dim)
                 THEN Return("axes", Axes(Append(acc.val.dims, ax.dim),
                                          Append(acc.val.idx, IndexEq(a.dims, ax.dim))))
                 ELSE Raise("ValueError")
            ELSE Raise(ErrNotPresent)

RECURSIVE MultiLoop(_, _, _)
MultiLoop(a, acc, axis) ==
    IF axis = <<>> THEN acc
    ELSE MultiLoop(a, MultiStep(a, acc, Head(axis)), Tail(axis))

\* multiple_axis_handler(a, axis)
multiple_axis_handler(a, axis) ==
    IF axis.kind = "none" THEN Return("axes", AxesNone)
    ELSE MultiLoop(a, Return("axes", Axes(<<>>, <<>>)), axis.items)

-----------------------------------------------------------------------------
(* squeeze and the reductions *)

\* _hfarray.squeeze(axis)
squeeze(self, axis) ==
    LET r == multiple_axis_handler(self, axis)
    IN  IF ~r.ok THEN r
        ELSE IF r.val.none
        THEN hfarray_new(nd_squeeze_all(self), TRUE,
                         Some(Pick(self.dims, {k \in 1..Len(self.dims) :
                                                  self.shape[k] # 1})))
        ELSE LET dimidxs == r.val.idx
                 newinfo == Pick(self.dims, {k \in 1..Len(self.dims) :
                                    \A l \in 1..Len(dimidxs) : dimidxs[l] # k - 1})
             IN  IF ~nd_squeeze_ok(self, dimidxs) THEN Raise("ValueError")
                 ELSE hfarray_new(nd_squeeze(self, dimidxs), TRUE, Some(newinfo))

\* the tuple of positions, as the axis argument res.squeeze(axis=dimidx) gets
IdxAxis(axes) ==
    IF axes.none THEN AxisNone
    ELSE AxisSeq([k \in 1..Len(axes.idx) |-> AxInt(axes.idx[k])])

\* the body shared by _hfarray.sum, min and max (and mean, std, var)
reduction(func, self, axis, keepdims, dimerror) ==
    LET m == multiple_axis_handler(self, axis)
    IN  IF ~m.ok
        THEN IF IsIndexError(m.err) /\ ~dimerror THEN Return("hfarray", self) ELSE m
        ELSE LET dimidx == IF m.val.none THEN AllAxes(self) ELSE m.val.idx
             IN  IF ~nd_reduce_ok(func, self, dimidx) THEN Raise("ValueError")
                 ELSE LET res == hfarray_new(nd_reduce_keepdims(func, self, dimidx),
                                             FALSE, Some(self.dims))
                      IN  IF ~res.ok \/ keepdims THEN res
                          ELSE squeeze(res.val, IdxAxis(m.val))

\* _hfarray.sum(axis, keepdims, dimerror)
sum(self, axis, keepdims, dimerror) == reduction("sum", self, axis, keepdims, dimerror)
\* _hfarray.min(axis, keepdims, dimerror)
min(self, axis, keepdims, dimerror) == reduction("min", self, axis, keepdims, dimerror)
\* _hfarray.max(axis, keepdims, dimerror)
max(self, axis, keepdims, dimerror) == reduction("max", self, axis, keepdims, dimerror)

\* np.asarray(a).cumsum(axis) and cumprod(axis): the running sum or product
\* along one axis
RECURSIVE CumAt(_, _, _, _)
CumAt(func, a, ax, c) ==
    IF c[ax] = 0 THEN At(a, c)
    ELSE LET before == CumAt(func, a, ax, [c EXCEPT ![ax] = c[ax] - 1])
         IN  IF func = "cumsum" THEN before + At(a, c) ELSE before * At(a, c)
nd_cumulative(func, a, axis) ==
    [a EXCEPT !.data = [g \in 1..Prod(a.shape) |->
                           CumAt(func, a, axis + 1, Unflat(a.shape, g - 1))]]

\* _hfarray.cumsum(axis) and _hfarray.cumprod(axis)
cumulative(func, self, axis) ==
    IF axis.kind = "none" THEN Raise("HFArrayError")
    ELSE LET d == axis_handler(self, axis.items[1])
         IN  IF ~d.ok THEN d
             ELSE hfarray_new(nd_cumulative(func, self, dims_index(self.dims, d.val.name)),
                              FALSE, Some(self.dims))
\* _hfarray.cumsum(axis)
cumsum(self, axis) == cumulative("cumsum", self, axis)
\* _hfarray.cumprod(axis)
cumprod(self, axis) == cumulative("cumprod", self, axis)

-----------------------------------------------------------------------------
(* reorder_dimensions and the matrix transpose .t *)

\* the loop of reorder_dimensions over order: neworder so far, the dimensions
\* not yet moved (infos), and whether tuple.index or list.index failed
RECURSIVE ReorderLoop(_, _, _, _)
ReorderLoop(dims, order, neworder, infos) ==
    IF order = <<>> THEN [ok |-> TRUE, neworder |-> neworder, infos |-> infos]
    ELSE LET dim == Head(order)
         IN  IF ~HasEq(dims, dim) \/ ~HasEq(infos, dim)
             THEN [ok |-> FALSE, neworder |-> neworder, infos |-> infos]
             ELSE ReorderLoop(dims, Tail(order),
                              Append(neworder, IndexEq(dims, dim)),
                              Pick(infos, (1..Len(infos)) \ {IndexEq(infos, dim) + 1}))

\* _hfarray.reorder_dimensions(*order), order a sequence of descriptors
reorder_dimensions(self, order) ==
    LET l == ReorderLoop(self.dims, order, <<>>, self.dims)
    IN  IF ~l.ok THEN Raise("ValueError")
        ELSE transpose(self, l.neworder \o
                [k \in 1..Len(l.infos) |-> IndexEq(self.dims, l.infos[k])])

\* the last member of a class (the loop of .t keeps the last one it meets)
LastOfClass(dims, cls) ==
    dims[CHOOSE k \in OfClass(dims, cls) : \A l \in OfClass(dims, cls) : l <= k]

\* _hfarray.t
t(self) ==
    IF OfClass(self.dims, "DimMatrix_i") = {} \/ OfClass(self.dims, "DimMatrix_j") = {}
    THEN Return("hfarray", self)
    ELSE LET di == LastOfClass(self.dims, "DimMatrix_i")
             dj == LastOfClass(self.dims, "DimMatrix_j")
             i == dims_index(self.dims, di.name)
             j == dims_index(self.dims, dj.name)
             n == Len(self.shape)
             order == [k \in 1..n |-> IF k - 1 = i THEN j ELSE IF k - 1 = j THEN i ELSE k - 1]
             out == transpose(self, order)
         IN  IF ~out.ok THEN out
             ELSE LET nd1 == [out.val.dims EXCEPT ![i + 1] = Dim("DimMatrix_i", di.name, dj.data)]
                      nd2 == [nd1 EXCEPT ![j + 1] = Dim("DimMatrix_j", dj.name, di.data)]
                  IN  Return("hfarray", set_dims(out.val, nd2))

-----------------------------------------------------------------------------
(* Indexing *)

\* An index: an integer, a slice, Ellipsis, newaxis or a boolean labeled array
IxInt(i) == [k |-> "int", i |-> i, sl |-> FullSlice, m |-> NoVal]
IxSlice(start, stop) == [k |-> "slice", i |-> 0, sl |-> [start |-> start, stop |-> stop], m |-> NoVal]
IxEllipsis == [k |-> "ellipsis", i |-> 0, sl |-> FullSlice, m |-> NoVal]
IxNewaxis == [k |-> "newaxis", i |-> 0, sl |-> FullSlice, m |-> NoVal]
IxBool(m) == [k |-> "bool", i |-> 0, sl |-> FullSlice, m |-> m]
IxFull == IxSlice(None, None)

\* An indexing expression a[x]: x is one index or a tuple of indices
One(ix) == [items |-> <<ix>>, tuple |-> FALSE]
Tuple(items) == [items |-> items, tuple |-> TRUE]

Count(items, kind) == Cardinality({k \in 1..Len(items) : items[k].k = kind})
Repeat(e, n) == [k \in 1..n |-> e]
FirstOf(items, kind) ==
    CHOOSE k \in 1..Len(items) :
        items[k].k = kind /\ \A l \in 1..(k - 1) : items[l].k # kind

\* numpy's basic indexing of a buffer by ints, slices, newaxis and one Ellipsis
Consuming(items) == Count(items, "int") + Count(items, "slice")
NdExpand(n, items) ==
    LET e == IF Count(items, "ellipsis") = 1
             THEN LET p == FirstOf(items, "ellipsis")
                  IN  SubSeq(items, 1, p - 1) \o Repeat(IxFull, n - Consuming(items))
                      \o SubSeq(items, p + 1, Len(items))
             ELSE items
    IN  e \o Repeat(IxFull, n - Consuming(e))
\* the source axis (1-based) an expanded index applies to
AxisOfItem(e, k) == Cardinality({l \in 1..k : e[l].k # "newaxis"})
nd_getitem_ok(a, items) ==
    /\ Count(items, "ellipsis") <= 1
    /\ Consuming(items) <= Len(a.shape)
    /\ \A k \in 1..Len(NdExpand(Len(a.shape), items)) :
          LET e == NdExpand(Len(a.shape), items)
          IN  e[k].k = "int" => PyValidIndex(a.shape[AxisOfItem(e, k)], e[k].i)
nd_getitem(a, items) ==
    LET n == Len(a.shape)
        e == NdExpand(n, items)
        outpos == KeepPos(Len(e), {k \in 1..Len(e) : e[k].k # "int"})
        newshape == [p \in 1..Len(outpos) |->
                        IF e[outpos[p]].k = "newaxis" THEN 1
                        ELSE SliceLen(a.shape[AxisOfItem(e, outpos[p])], e[outpos[p]].sl)]
        item(j) == CHOOSE k \in 1..Len(e) : e[k].k # "newaxis" /\ AxisOfItem(e, k) = j
        outof(k) == CHOOSE p \in 1..Len(outpos) : outpos[p] = k
    IN  NdArray(newshape,
            [g \in 1..Prod(newshape) |->
                LET c == Unflat(newshape, g - 1)
                IN  At(a, [j \in 1..n |->
                        IF e[item(j)].k = "int" THEN PyNorm(a.shape[j], e[item(j)].i)
                        ELSE SliceLo(a.shape[j], e[item(j)].sl) + c[outof(item(j))]])])

\* the coordinates of the true entries of a boolean array, in C order
TrueCoords(m) ==
    LET pos == KeepPos(Len(m.data), {g \in 1..Len(m.data) : m.data[g] = 1})
    IN  [q \in 1..Len(pos) |-> Unflat(m.shape, pos[q] - 1)]

\* numpy's a[:, ..., :, m] for a boolean array m after lead full slices
nd_getitem_bool_ok(a, lead, m) ==
    /\ lead + Len(m.shape) <= Len(a.shape)
    /\ \A k \in 1..Len(m.shape) : a.shape[lead + k] = m.shape[k]
nd_getitem_bool(a, lead, m) ==
    LET n == Len(a.shape)
        mr == Len(m.shape)
        tc == TrueCoords(m)
        newshape == SubSeq(a.shape, 1, lead) \o <<Len(tc)>> \o SubSeq(a.shape, lead + mr + 1, n)
    IN  NdArray(newshape,
            [g \in 1..Prod(newshape) |->
                LET c == Unflat(newshape, g - 1)
                IN  At(a, [j \in 1..n |->
                        IF j <= lead THEN c[j]
                        ELSE IF j <= lead + mr THEN tc[c[lead + 1] + 1][j - lead]
                        ELSE c[j - mr + 1]])])

\* get_new_anonymous_dim(dims, size): the names ANON1, ANON2, ... in order
AnonNames == <<"ANON1", "ANON2", "ANON3", "ANON4", "ANON5">>
AnonNumber(name) == CHOOSE k \in 1..Len(AnonNames) : AnonNames[k] = name
\* a faulty variant of get_new_anonymous_dim: the names in use are not looked at
get_new_anonymous_dim_first(dims, size) ==
    Dim("DimAnonymous", AnonNames[1], PyRange(size))
get_new_anonymous_dim(dims, size) ==
    LET anon_names == {AnonNumber(dims[k].name) :
                          k \in {l \in 1..Len(dims) :
                                    /\ IsInstance(dims[l], "DimAnonymous")
                                    /\ dims[l].name \in Range(AnonNames)}} \cup {0}
        top == CHOOSE v \in anon_names : \A w \in anon_names : w <= v
    IN  Dim("DimAnonymous", AnonNames[top + 1], PyRange(size))

\* the leading dimensions of self that the boolean array does not own
RECURSIVE LeadingNotIn(_, _)
LeadingNotIn(dims, mdims) ==
    IF dims = <<>> \/ Dims_contains(mdims, Head(dims)) THEN <<>>
    ELSE <<Head(dims)>> \o LeadingNotIn(Tail(dims), mdims)

\* the boolean branch of __getitem__: self[m]
getitem_bool(self, m) ==
    LET reorder == LeadingNotIn(self.dims, m.dims)
        reordered == reorder_dimensions(self, reorder \o m.dims)
    IN  IF ~reordered.ok THEN reordered
        ELSE IF Len(m.dims) = 1 /\ Len(m.dims[1].data) # Len(m.data)
        THEN Raise("IndexError")
        ELSE LET newdim == IF Len(m.dims) = 1
                           THEN Dim(m.dims[1].cls, m.dims[1].name,
                                    Pick(m.dims[1].data,
                                         {g \in 1..Len(m.data) : m.data[g] = 1}))
                           ELSE get_new_anonymous_dim(self.dims, SumSeq(m.data))
                 rd == reordered.val
                 dims == PyTake(rd.dims, Len(reorder)) \o <<newdim>>
                         \o PyDrop(rd.dims, Len(reorder) + Len(m.dims))
             IN  IF ~nd_getitem_bool_ok(rd, Len(reorder), m) THEN Raise("IndexError")
                 ELSE hfarray_new(nd_getitem_bool(rd, Len(reorder), m), TRUE, Some(dims))

\* a faulty variant of IndexedDims: a slice keeps the descriptor as it was
RECURSIVE IndexedDims_unsliced(_, _)
IndexedDims_unsliced(indices, dims) ==
    IF indices = <<>> \/ dims = <<>> THEN <<>>
    ELSE (IF Head(indices).k = "int" THEN <<>> ELSE <<Head(dims)>>)
         \o IndexedDims_unsliced(Tail(indices), Tail(dims))

\* the dimensions kept by integer and slice indices: zip(indices, self.dims)
RECURSIVE IndexedDims(_, _)
IndexedDims(indices, dims) ==
    IF indices = <<>> \/ dims = <<>> THEN <<>>
    ELSE (IF Head(indices).k = "int" THEN <<>>
          ELSE <<DimGetSlice(Head(dims), Head(indices).sl)>>)
         \o IndexedDims(Tail(indices), Tail(dims))

\* a faulty variant of ExpandEllipsis: the Ellipsis itself is counted as an
\* index that addresses an axis
ExpandEllipsis_short(n, orig) ==
    IF Count(orig, "ellipsis") = 1
    THEN LET i == FirstOf(orig, "ellipsis")
         IN  SubSeq(orig, 1, i - 1) \o Repeat(IxFull, n - Len(orig))
             \o SubSeq(orig, i + 1, Len(orig))
    ELSE orig

\* the indices of __getitem__ once its one Ellipsis is replaced by full slices
ExpandEllipsis(n, orig) ==
    IF Count(orig, "ellipsis") = 1
    THEN LET i == FirstOf(orig, "ellipsis")
         IN  SubSeq(orig, 1, i - 1) \o Repeat(IxFull, n - (Len(orig) - 1))
             \o SubSeq(orig, i + 1, Len(orig))
    ELSE orig

\* _hfarray.__getitem__(x)
__getitem__(self, x) ==
    LET n == Len(self.shape)
        orig == x.items
    IN  IF Count(orig, "newaxis") > 0
        THEN IF nd_getitem_ok(self, orig) THEN Return("ndarray", nd_getitem(self, orig))
             ELSE Raise("IndexError")
        ELSE IF ~x.tuple /\ orig[1].k = "ellipsis" THEN view(self)
        ELSE IF Count(orig, "ellipsis") > 1 THEN Raise("IndexError")
        ELSE IF Len(orig) = 1 /\ orig[1].k = "bool" THEN getitem_bool(self, orig[1].m)
        ELSE
        LET ellipsis_and_ints == \A k \in 1..Len(orig) : orig[k].k \in {"int", "ellipsis"}
            expanded == ExpandEllipsis(n, orig)
            indices == expanded \o Repeat(IxFull, n - Len(expanded))
            dims == IndexedDims(indices, self.dims)
            used == IF ellipsis_and_ints THEN orig ELSE indices
        IN  IF ~nd_getitem_ok(self, used) THEN Raise("IndexError")
            ELSE IF Count(used, "ellipsis") = 0 /\ Count(used, "int") = n
            THEN Return("scalar", nd_getitem(self, used))
            ELSE hfarray_new(nd_getitem(self, used), TRUE, Some(dims))

-----------------------------------------------------------------------------
(* add_dim *)

\* ndarray.repeat(reps, axis)
nd_repeat(a, reps, axis) ==
    LET n == Len(a.shape)
        ax == PyNorm(n, axis) + 1
        newshape == [a.shape EXCEPT ![ax] = a.shape[ax] * reps]
    IN  NdArray(newshape,
            [g \in 1..Prod(newshape) |->
                LET c == Unflat(newshape, g - 1)
                IN  At(a, [c EXCEPT ![ax] = c[ax] \div reps])])

\* _hfarray.add_dim(dim, axis)
add_dim(self, dim, axis) ==
    IF Dims_contains(self.dims, dim) THEN Return("hfarray", self)
    ELSE LET n == Len(self.shape)
             ax == IF axis < n THEN axis ELSE n
             out == nd_getitem(self, Repeat(IxFull, ax) \o <<IxNewaxis>>)
         IN  IF Len(dim.data) > 1 /\ ~PyValidIndex(n + 1, ax) THEN Raise("AxisError")
             ELSE hfarray_new(IF Len(dim.data) > 1 THEN nd_repeat(out, Len(dim.data), ax)
                              ELSE out,
                              FALSE, Some(PyInsert(self.dims, ax, dim)))

-----------------------------------------------------------------------------
(* The arithmetic operators *)

ApplyOp(f, u, v) ==
    CASE f = "add" -> u + v
      [] f = "sub" -> u - v
      [] f = "mul" -> u * v

\* numpy broadcasting: shapes are aligned at their last axis
PadShape(sh, n) ==
    [k \in 1..n |-> IF k <= n - Len(sh) THEN 1 ELSE sh[k - (n - Len(sh))]]
MaxLen(sa, sb) == IF Len(sa) > Len(sb) THEN Len(sa) ELSE Len(sb)
Broadcast_ok(sa, sb) ==
    LET n == MaxLen(sa, sb)
    IN  \A k \in 1..n :
           \/ PadShape(sa, n)[k] = PadShape(sb, n)[k]
           \/ PadShape(sa, n)[k] = 1
           \/ PadShape(sb, n)[k] = 1
BroadcastShape(sa, sb) ==
    LET n == MaxLen(sa, sb)
    IN  [k \in 1..n |-> IF PadShape(sa, n)[k] = 1 THEN PadShape(sb, n)[k]
                        ELSE PadShape(sa, n)[k]]
\* the coordinate of the operand's element that lands on coordinate c of the result
BroadcastCoord(sh, n, c) ==
    [k \in 1..Len(sh) |-> IF sh[k] = 1 THEN 0 ELSE c[k + (n - Len(sh))]]

\* ndarray.__add__(a, b) and the like on two aligned arrays: the result takes
\* a's dimension collection (__array_finalize__)
ndarray_binop(f, a, b) ==
    IF ~Broadcast_ok(a.shape, b.shape) THEN Raise("ValueError")
    ELSE LET sh == BroadcastShape(a.shape, b.shape)
             n == Len(sh)
         IN  Return("hfarray",
                [dims |-> a.dims, shape |-> sh,
                 data |-> [g \in 1..Prod(sh) |->
                    LET c == Unflat(sh, g - 1)
                    IN  ApplyOp(f, At(a, BroadcastCoord(a.shape, n, c)),
                                   At(b, BroadcastCoord(b.shape, n, c)))]])

\* ndarray.__add__(a, number)
ndarray_binop_number(f, a, num) ==
    Return("hfarray", [a EXCEPT !.data = [g \in 1..Len(a.data) |-> ApplyOp(f, a.data[g], num)]])

\* the other operand: a number, a labeled array or a plain buffer
Number(n) == [kind |-> "number", num |-> n, arr |-> NoVal]
Labeled(b) == [kind |-> "hfarray", num |-> 0, arr |-> b]
Plain(b) == [kind |-> "ndarray", num |-> 0, arr |-> b]

\* a faulty variant of check_instance: the operands are combined as they are
check_instance_unaligned(f, self, other) ==
    IF other.kind = "number" THEN ndarray_binop_number(f, self, other.num)
    ELSE ndarray_binop(f, self, other.arr)

\* check_instance(func)(self, other)
check_instance(f, self, other) ==
    IF other.kind = "number" THEN ndarray_binop_number(f, self, other.num)
    ELSE LET o == hfarray_new(other.arr, other.kind = "hfarray", None)
         IN  IF ~o.ok THEN o
             ELSE LET ab == make_same_dims(self, o.val)
                  IN  IF ~ab[1].ok THEN ab[1]
                      ELSE IF ~ab[2].ok THEN ab[2]
                      ELSE ndarray_binop(f, ab[1].val, ab[2].val)

__add__(self, other) == check_instance("add", self, other)
__sub__(self, other) == check_instance("sub", self, other)
__mul__(self, other) == check_instance("mul", self, other)

\* __neg__ and __abs__
__neg__(self) == Return("hfarray", [self EXCEPT !.data = [g \in 1..Len(self.data) |-> 0 - self.data[g]]])
__abs__(self) ==
    Return("hfarray", [self EXCEPT !.data = [g \in 1..Len(self.data) |->
        IF self.data[g] < 0 THEN 0 - self.data[g] ELSE self.data[g]]])

-----------------------------------------------------------------------------
(* The arrays the operations are tried on *)

dFreq == Dim("DimSweep", "freq", <<10, 20>>)
dRep == Dim("DimRep", "rep", <<0, 1, 2>>)
dRep2 == Dim("DimRep", "rep2", <<0, 1>>)
dI == Dim("DimMatrix_i", "i", <<1, 2>>)
dJ == Dim("DimMatrix_j", "j", <<1, 2, 3>>)
\* the same dimensions as dFreq and dRep by (name, variant), sampled differently
dFreq3 == Dim("DimSweep", "freq", <<10, 20, 30>>)
dRep1 == Dim("DimRep", "rep", <<7>>)

\* sequences of length at most n over a set of descriptors, no identity twice
RECURSIVE DimSeqs(_, _)
DimSeqs(pool, n) ==
    IF n = 0 THEN {<<>>}
    ELSE LET shorter == DimSeqs(pool, n - 1)
         IN  shorter \cup
             {Append(s, d) : s \in {u \in shorter : Len(u) = n - 1}, d \in pool}

NoDuplicate(dims) ==
    \A k, l \in 1..Len(dims) : k # l => ~DimEq(dims[k], dims[l])

Collections(pool, n) == {s \in DimSeqs(pool, n) : NoDuplicate(s)}

\* hfarray(buffer, dims=dims): the buffer has one axis per descriptor, sized to
\* its coordinates, and holds first, first + 1, ... in C order
ShapeOf(dims) == [k \in 1..Len(dims) |-> Len(dims[k].data)]
Iota(shape, first) == NdArray(shape, [f \in 1..Prod(shape) |-> first + f - 1])
MkArray(dims, first) == hfarray_new(Iota(ShapeOf(dims), first), FALSE, Some(dims)).val

Arrays(pool, n, first) == {MkArray(dims, first) : dims \in Collections(pool, n)}

Call(op, self) ==
    [dims |-> <<>>, order |-> <<>>, f |-> "", self |-> self, axis |-> AxisNone,
     pos |-> 0, keepdims |-> FALSE, dimerror |-> TRUE, other |-> NoVal,
     op |-> op, list |-> <<>>, index |-> Tuple(<<>>)]

-----------------------------------------------------------------------------
(* change_shape on its own: an array and a target collection *)

ShapePool == {dFreq, dRep, dRep2, dI}

InitShape ==
    /\ A \in Arrays(ShapePool, MaxRank, 1)
    /\ B = NoVal
    /\ call = Call("none", NoVal)
    /\ ret = NoRet
    /\ nops = 0

ChangeShape ==
    /\ nops = 0
    /\ \E T \in Collections(ShapePool, MaxRank + 1) :
          /\ call' = [Call("change_shape", A) EXCEPT !.dims = T]
          /\ ret' = change_shape(A, T)
    /\ nops' = 1
    /\ UNCHANGED <<A, B>>

NextShape == ChangeShape

SpecShape == InitShape /\ [][NextShape]_vars

\* x owns d: some dimension of x has d's name and variant
Owns(x, d) == \E j \in 1..Len(x.dims) : DimEq(x.dims[j], d)
PosIn(dims, d) == CHOOSE j \in 1..Len(dims) : DimEq(dims[j], d)
ContainsAll(T, x) == \A j \in 1..Len(x.dims) : \E k \in 1..Len(T) : DimEq(T[k], x.dims[j])
CoordsOf(shape) == {Unflat(shape, f) : f \in 0..(Prod(shape) - 1)}

\* C4: for a target collection T that contains all of x's dimensions,
\* change_shape(x, T) returns an array with dims T and rank len(T), of size
\* x's size along the dimensions x owns and 1 along the others, whose element
\* at any coordinate is x's element at the coordinates of the dimensions x owns.
C4_ChangeShapeAligns ==
    (call.op = "change_shape" /\ ContainsAll(call.dims, call.self)) =>
        LET x == call.self
            T == call.dims
            r == ret.val
        IN  /\ ret.ok /\ ret.kind = "hfarray"
            /\ r.dims = T
            /\ Len(r.shape) = Len(T)
            /\ \A k \in 1..Len(T) :
                  r.shape[k] = IF Owns(x, T[k]) THEN x.shape[PosIn(x.dims, T[k])] ELSE 1
            /\ \A c \in CoordsOf(r.shape) :
                  At(r, c) = At(x, [j \in 1..Len(x.dims) |-> c[PosIn(T, x.dims[j])]])

\* a rank-2 array whose two dimensions come in the other order in T, with a
\* dimension in between that the array does not own
C4_Witness ==
    /\ call.op = "change_shape" /\ ContainsAll(call.dims, call.self)
    /\ ret.ok
    /\ Len(call.self.dims) = 2 /\ Len(call.dims) = 3
    /\ PosIn(call.dims, call.self.dims[1]) = 3
    /\ PosIn(call.dims, call.self.dims[2]) = 1

-----------------------------------------------------------------------------
(* The binary operators on two labeled arrays *)

ArithPoolA == {dFreq, dRep, dRep2}
ArithPoolB == {dFreq, dFreq3, dRep, dRep1, dRep2}

InitArith ==
    /\ A \in Arrays(ArithPoolA, MaxRank, 1)
    /\ B \in Arrays(ArithPoolB, MaxRank, 100)
    /\ call = Call("none", NoVal)
    /\ ret = NoRet
    /\ nops = 0

\* A + B, A - B, A * B
BinaryOperator ==
    /\ nops = 0
    /\ \E f \in {"add", "sub", "mul"} :
          /\ call' = [Call("operator", A) EXCEPT !.f = f, !.other = B]
          /\ ret' = check_instance(f, A, Labeled(B))
    /\ nops' = 1
    /\ UNCHANGED <<A, B>>

\* the same combination done by hand: both operands are aligned with
\* change_shape to dims_union(A, B), then the buffers are combined
AlignCombine(f, a, b) ==
    LET newdims == dims_union(<<a, b>>)
        a1 == change_shape(a, newdims)
        b1 == change_shape(b, newdims)
    IN  IF ~a1.ok THEN a1
        ELSE IF ~b1.ok THEN b1
        ELSE ndarray_binop(f, a1.val, b1.val)

AlignThenCombine ==
    /\ nops = 0
    /\ \E f \in {"add", "sub", "mul"} :
          /\ call' = [Call("align", A) EXCEPT !.f = f, !.other = B]
          /\ ret' = AlignCombine(f, A, B)
    /\ nops' = 1
    /\ UNCHANGED <<A, B>>

NextArith == BinaryOperator \/ AlignThenCombine

SpecArith == InitArith /\ [][NextArith]_vars

SharedEqualSizes(a, b) ==
    \A j \in 1..Len(a.dims), k \in 1..Len(b.dims) :
        DimEq(a.dims[j], b.dims[k]) => a.shape[j] = b.shape[k]

\* the coordinate in x of coordinate c of an array with dimensions dims
Project(x, dims, c) == [j \in 1..Len(x.dims) |-> c[PosIn(dims, x.dims[j])]]

\* C5: for A and B whose shared dimensions have equal sizes, A + B has the
\* dimension collection dims_union(A, B), the size of the owning operand along
\* each dimension, and at every coordinate the sum of A's and B's elements.
C5_AddBroadcasts ==
    (call.op = "operator" /\ call.f = "add"
        /\ SharedEqualSizes(call.self, call.other)) =>
        LET a == call.self
            b == call.other
            r == ret.val
        IN  /\ ret.ok /\ ret.kind = "hfarray"
            /\ r.dims = dims_union(<<a, b>>)
            /\ Len(r.shape) = Len(r.dims)
            /\ \A k \in 1..Len(r.dims) :
                  r.shape[k] = IF Owns(a, r.dims[k])
                               THEN a.shape[PosIn(a.dims, r.dims[k])]
                               ELSE b.shape[PosIn(b.dims, r.dims[k])]
            /\ \A c \in CoordsOf(r.shape) :
                  At(r, c) = At(a, Project(a, r.dims, c)) + At(b, Project(b, r.dims, c))

\* the sum of two rank-2 arrays that share one dimension and own one each, B's
\* own dimension sorting before A's
C5_Witness ==
    /\ call.op = "operator" /\ call.f = "add"
    /\ SharedEqualSizes(call.self, call.other)
    /\ ret.ok
    /\ Len(call.self.dims) = 2 /\ Len(call.other.dims) = 2
    /\ Len(ret.val.dims) = 3
    /\ \E k \in 1..2 : Owns(call.self, call.other.dims[k])
    /\ ~Owns(call.self, ret.val.dims[1])

SameOutcome(r1, r2) ==
    /\ r1.ok = r2.ok
    /\ r1.ok => /\ r1.val.dims = r2.val.dims
                /\ r1.val.shape = r2.val.shape
                /\ r1.val.data = r2.val.data

\* C6: aligning A and B by hand with change_shape to dims_union(A, B) and
\* combining the aligned buffers gives the dimension collection and the
\* elements the public operator gives on A and B.
C6_AlignThenCombineIsOperator ==
    /\ call.op = "align" =>
          SameOutcome(ret, check_instance(call.f, call.self, Labeled(call.other)))
    /\ call.op = "operator" =>
          SameOutcome(ret, AlignCombine(call.f, call.self, call.other))

\* a subtraction by hand of two arrays that each own a dimension of the same
\* priority, which the union orders by first appearance
C6_Witness ==
    /\ call.op = "align" /\ call.f = "sub" /\ ret.ok
    /\ Len(ret.val.dims) >= 2
    /\ \E k \in 1..(Len(ret.val.dims) - 1) :
          /\ sortprio(ret.val.dims[k]) = sortprio(ret.val.dims[k + 1])
          /\ Owns(call.self, ret.val.dims[k]) /\ ~Owns(call.other, ret.val.dims[k])
          /\ Owns(call.other, ret.val.dims[k + 1]) /\ ~Owns(call.self, ret.val.dims[k + 1])

-----------------------------------------------------------------------------
(* dims_union on its own: one to three labeled arrays *)

UnionPoolA == {dFreq, dRep, dRep2, dI}
UnionPoolB == {dFreq3, dRep, dRep2, dJ}
UnionThird == {MkArray(<<dRep1, dFreq>>, 1), MkArray(<<dJ, dI>>, 1)}

InitUnion ==
    /\ A \in Arrays(UnionPoolA, MaxRank, 1)
    /\ B \in Arrays(UnionPoolB, MaxRank, 1)
    /\ call = Call("none", NoVal)
    /\ ret = NoRet
    /\ nops = 0

DimsUnion ==
    /\ nops = 0
    /\ \E a \in {<<A>>, <<A, B>>, <<B, A>>} \cup {<<A, B, c>> : c \in UnionThird} :
          /\ call' = [Call("dims_union", A) EXCEPT !.list = a]
          /\ ret' = Return("dims", [NoVal EXCEPT !.dims = dims_union(a)])
    /\ nops' = 1
    /\ UNCHANGED <<A, B>>

NextUnion == DimsUnion

SpecUnion == InitUnion /\ [][NextUnion]_vars

RECURSIVE ConcatDims(_)
ConcatDims(a) == IF a = <<>> THEN <<>> ELSE Head(a).dims \o ConcatDims(Tail(a))

\* the dimensions in first-seen order: all of the first array's, then each later
\* one that no earlier one equals by (name, variant)
FirstSeen(a) ==
    LET cat == ConcatDims(a)
    IN  Pick(cat, {k \in 1..Len(cat) :
                     \/ k <= Len(a[1].dims)
                     \/ \A j \in 1..(k - 1) : ~DimEq(cat[j], cat[k])})

PosOf(s, d) == CHOOSE k \in 1..Len(s) : s[k] = d

\* C3: dims_union returns the dimensions in first-seen order (the first
\* array's, then each later array's that are not yet present by (name,
\* variant)), stably sorted by sort_priority: priorities never decrease along
\* the result, and dimensions of equal priority keep their first-seen order.
C3_DimsUnionStableSorted ==
    call.op = "dims_union" =>
        LET F == FirstSeen(call.list)
            r == ret.val.dims
        IN  /\ Len(r) = Len(F)
            /\ \A k \in 1..Len(F) : \E p \in 1..Len(r) : r[p] = F[k]
            /\ \A p, q \in 1..Len(r) :
                  p < q => /\ sortprio(r[p]) <= sortprio(r[q])
                           /\ sortprio(r[p]) = sortprio(r[q])
                                 => PosOf(F, r[p]) < PosOf(F, r[q])

\* three arrays: a later array's dimension sorts before the first array's, a
\* dimension of a later array is already present with other coordinates, and two
\* dimensions of equal priority come from different arrays
C3_Witness ==
    /\ call.op = "dims_union" /\ Len(call.list) = 3
    /\ LET a == call.list
           r == ret.val.dims
       IN  /\ Len(r) >= 4
           /\ ~Owns(a[1], r[1])
           /\ \E k \in 1..Len(a[3].dims) :
                 Owns(a[1], a[3].dims[k]) /\ a[3].dims[k] \notin Range(r)
           /\ \E p \in 1..(Len(r) - 1) :
                 /\ sortprio(r[p]) = sortprio(r[p + 1])
                 /\ Owns(a[1], r[p]) /\ ~Owns(a[1], r[p + 1])

-----------------------------------------------------------------------------
(* The axis resolvers on their own *)

AxisPool == {dFreq, dRep, dRep2, dI}

\* the specifiers tried: positions in and out of range, names present and
\* absent, every class, members, and instances that are no members
Positions == (0 - MaxRank - 1)..MaxRank
Names == {"freq", "rep", "rep2", "i", "absent"}
Instances == AxisPool \cup {dFreq3, dJ, Dim("DimRep", "freq", <<0, 1>>)}
Specifiers ==
    {AxInt(i) : i \in Positions} \cup {AxName(s) : s \in Names}
    \cup {AxCls(c) : c \in Classes} \cup {AxDim(d) : d \in Instances}

InitAxis ==
    /\ A \in Arrays(AxisPool, MaxRank, 1)
    /\ B = NoVal
    /\ call = Call("none", NoVal)
    /\ ret = NoRet
    /\ nops = 0

AxisHandler ==
    /\ nops = 0
    /\ \E s \in Specifiers :
          /\ call' = [Call("axis_handler", A) EXCEPT !.axis = AxisOne(s)]
          /\ ret' = axis_handler(A, s)
    /\ nops' = 1
    /\ UNCHANGED <<A, B>>

MultipleAxisHandler ==
    /\ nops = 0
    /\ \E axis \in {AxisNone} \cup {AxisOne(s) : s \in Specifiers}
                   \cup {AxisSeq(<<s>>) : s \in Specifiers}
                   \cup {AxisSeq(<<AxName("rep"), s>>) : s \in Specifiers} :
          /\ call' = [Call("multiple_axis_handler", A) EXCEPT !.axis = axis]
          /\ ret' = multiple_axis_handler(A, axis)
    /\ nops' = 1
    /\ UNCHANGED <<A, B>>

NextAxis == AxisHandler \/ MultipleAxisHandler

SpecAxis == InitAxis /\ [][NextAxis]_vars

\* the positions of the members of a variant
OfVariant(dims, cls) == {k \in 1..Len(dims) : dims[k].cls = cls}

\* C8: single-axis resolution of a variant tag returns the one member of that
\* variant when there is exactly one, fails with the not-found error when there
\* is none and with the ambiguity error when there are several.
C8_VariantResolution ==
    (call.op = "axis_handler" /\ call.axis.items[1].k = "cls") =>
        LET members == OfVariant(call.self.dims, call.axis.items[1].cls)
        IN  /\ Cardinality(members) = 1 =>
                 /\ ret.ok
                 /\ \A k \in members : ret.val = call.self.dims[k]
            /\ Cardinality(members) = 0 => ~ret.ok /\ ret.err = ErrNotPresent
            /\ Cardinality(members) > 1 => ~ret.ok /\ ret.err = ErrSeveral

\* a variant with two members was asked for and refused as ambiguous
C8_Witness ==
    /\ call.op = "axis_handler" /\ call.axis.items[1].k = "cls"
    /\ Cardinality(OfVariant(call.self.dims, call.axis.items[1].cls)) = 2
    /\ ~ret.ok /\ ret.err = ErrSeveral

\* C9 (as claimed): multi-axis resolution of [s] fails exactly when single-axis
\* resolution of s fails, and otherwise returns the one descriptor single-axis
\* resolution returns, paired with its position in the collection.
C9_MultiAgreesWithSingle ==
    (call.op = "multiple_axis_handler" /\ call.axis.kind = "seq"
        /\ Len(call.axis.items) = 1) =>
        LET single == axis_handler(call.self, call.axis.items[1])
        IN  /\ ret.ok = single.ok
            /\ ret.ok =>
                 /\ Len(ret.val.dims) = 1 /\ Len(ret.val.idx) = 1
                 /\ ret.val.dims[1] = single.val
                 /\ ret.val.idx[1] \in 0..(Len(call.self.dims) - 1)
                 /\ DimEq(call.self.dims[ret.val.idx[1] + 1], single.val)

-----------------------------------------------------------------------------
(* The reductions on their own *)

ReducePool == {dFreq, dRep, dRep2}

ReduceAxes ==
    {AxisNone} \cup {AxisOne(s) : s \in Specifiers}
    \cup {AxisSeq(<<s>>) : s \in Specifiers}
    \cup {AxisSeq(<<AxName("rep"), s>>) : s \in Specifiers}

InitReduce ==
    /\ A \in Arrays(ReducePool, MaxRank, 1)
    /\ B = NoVal
    /\ call = Call("none", NoVal)
    /\ ret = NoRet
    /\ nops = 0

Reduce ==
    /\ nops = 0
    /\ \E func \in {"sum", "min", "max"}, axis \in ReduceAxes,
          keepdims \in BOOLEAN, dimerror \in BOOLEAN :
          /\ call' = [Call(func, A) EXCEPT !.axis = axis, !.keepdims = keepdims,
                                           !.dimerror = dimerror]
          /\ ret' = reduction(func, A, axis, keepdims, dimerror)
    /\ nops' = 1
    /\ UNCHANGED <<A, B>>

NextReduce == Reduce

SpecReduce == InitReduce /\ [][NextReduce]_vars

\* what a specifier designates in a collection: whether the resolver accepts
\* it, and the positions (1-based) of the dimensions it stands for
Accepted(dims, s) ==
    CASE s.k = "int" -> PyValidIndex(Len(dims), s.i)
      [] s.k = "name" -> \E k \in 1..Len(dims) : dims[k].name = s.name
      [] s.k = "cls" -> TRUE
      [] OTHER -> \E k \in 1..Len(dims) : DimEq(dims[k], s.dim)
Designated(dims, s) ==
    CASE s.k = "int" -> {PyNorm(Len(dims), s.i) + 1}
      [] s.k = "name" -> {k \in 1..Len(dims) : dims[k].name = s.name}
      [] s.k = "cls" -> OfVariant(dims, s.cls)
      [] OTHER -> {k \in 1..Len(dims) : DimEq(dims[k], s.dim)}
AllAccepted(dims, axis) ==
    /\ \A k \in 1..Len(axis.items) : Accepted(dims, axis.items[k])
    /\ \A k, l \in 1..Len(axis.items) :
          k # l => Designated(dims, axis.items[k]) \cap Designated(dims, axis.items[l]) = {}
AllDesignated(dims, axis) ==
    UNION {Designated(dims, axis.items[k]) : k \in 1..Len(axis.items)}

\* C7 (as claimed): for every axis specifier the resolver accepts (specifiers of
\* a sequence designating different dimensions), A.sum(axis=s) returns, with
\* keepdims false, A's dimensions with exactly the resolved ones removed and the
\* others in their order, and with keepdims true A's dimensions unchanged.
C7_SumRemovesResolved ==
    (call.op = "sum" /\ call.axis.kind # "none"
        /\ AllAccepted(call.self.dims, call.axis)) =>
        LET dims == call.self.dims
            gone == AllDesignated(dims, call.axis)
        IN  /\ ret.ok /\ ret.kind = "hfarray"
            /\ call.keepdims => ret.val.dims = dims
            /\ ~call.keepdims =>
                 /\ ret.val.dims = Pick(dims, (1..Len(dims)) \ gone)
                 /\ Len(ret.val.dims) = Len(dims) - Cardinality(gone)

\* a name or a variant tag that designates no dimension of the array
ResolvesToNothing(dims, s) ==
    \/ s.k = "name" /\ \A k \in 1..Len(dims) : dims[k].name # s.name
    \/ s.k = "cls" /\ OfVariant(dims, s.cls) = {}

\* C10 (as claimed): a reduction whose axis specifier resolves to no dimension
\* of the array raises the resolver's error with dimerror true and returns the
\* array unchanged with dimerror false.
C10_MissingDimension ==
    (call.op \in {"sum", "min", "max"} /\ call.axis.kind = "one"
        /\ ResolvesToNothing(call.self.dims, call.axis.items[1])) =>
        /\ call.dimerror => ~ret.ok /\ IsIndexError(ret.err)
        /\ ~call.dimerror =>
              /\ ret.ok
              /\ ret.val.dims = call.self.dims
              /\ ret.val.shape = call.self.shape

-----------------------------------------------------------------------------
(* Setting the dimension collection: at construction and through .dims *)

DimsPool == {dFreq, dRep, dI}

InitDims ==
    /\ A \in Arrays(DimsPool, MaxRank, 1)
    /\ B = NoVal
    /\ call = Call("none", NoVal)
    /\ ret = NoRet
    /\ nops = 0

\* A = hfarray(buffer, dims=dims)
Construct ==
    /\ nops = 0
    /\ \E sized \in Collections(DimsPool, MaxRank), dims \in Collections(DimsPool, MaxRank + 1) :
          LET buffer == Iota(ShapeOf(sized), 1)
              r == hfarray_new(buffer, FALSE, Some(dims))
          IN  /\ call' = [Call("new", buffer) EXCEPT !.dims = dims]
              /\ ret' = r
              /\ A' = IF r.ok THEN r.val ELSE A
    /\ nops' = 1
    /\ UNCHANGED B

\* A.dims = value
SetDims ==
    /\ nops = 0
    /\ \E value \in Collections(DimsPool, MaxRank + 1) :
          /\ call' = [Call("set_dims", A) EXCEPT !.dims = value]
          /\ A' = set_dims(A, value)
          /\ ret' = NoRet
    /\ nops' = 1
    /\ UNCHANGED B

NextDims == Construct \/ SetDims

SpecDims == InitDims /\ [][NextDims]_vars

\* C2 (as claimed): setting the dimension collection to one whose length differs
\* from the buffer's rank, at construction or by assigning .dims, fails with the
\* shape/dimension mismatch error, and the array never holds a collection of
\* the wrong length.
C2_DimsRevalidated ==
    /\ (call.op \in {"new", "set_dims"} /\ Len(call.dims) # Len(call.self.shape)) =>
          ~ret.ok /\ ret.err = "HFArrayShapeDimsMismatchError"
    /\ Len(A.dims) = Len(A.shape)

-----------------------------------------------------------------------------
(* The operations of the labeled array, applied one after the other: A is   *)
(* the array at hand, each operation is called on it and, when it returns a *)
(* labeled array, that array becomes A.                                     *)

\* the arrays a chain starts from
Starts ==
    {MkArray(<<dFreq>>, 1), MkArray(<<dFreq, dRep1>>, 1),
     MkArray(<<dI, dJ>>, 1), MkArray(<<dRep1, dJ, dI>>, 1)}

\* the other operand of the binary operators
Others == {Number(2), Labeled(MkArray(<<dI, dFreq>>, 1)), Plain(Iota(<<2>>, 1))}

\* buffers and dims arguments handed to hfarray(...)
Buffers == {Iota(<<2>>, 1), Iota(<<1, 2, 1>>, 1)}
\* dims=None
NoDims == [v |-> <<>>, none |-> TRUE]
DimsArgs == {NoDims, Some(<<dFreq>>), Some(<<dI, dJ>>)}

Orders == {<<>>, <<1, 0>>, <<0, 0>>}
DimOrders == {<<dJ>>, <<dI, dI>>}
AxisArgs == {AxisNone, AxisOne(AxInt(-1)), AxisOne(AxName("rep"))}
ReductionAxes == {AxisNone, AxisOne(AxInt(0)), AxisSeq(<<AxCls("DimMatrix_i"), AxName("rep")>>)}

\* boolean labeled arrays over the first dimension of a and over all of them
\* (as a comparison of a with a number gives), over its dimensions reversed,
\* and over a dimension a lacks
MaskData(n) == [g \in 1..n |-> g % 2]
MaskOver(a, keep) ==
    LET shape == Pick(a.shape, keep)
    IN  [dims |-> Pick(a.dims, keep), shape |-> shape, data |-> MaskData(Prod(shape))]
Masks(a) ==
    LET n == Len(a.dims)
        rev == [dims |-> [k \in 1..n |-> a.dims[n + 1 - k]],
                shape |-> [k \in 1..n |-> a.shape[n + 1 - k]], data |-> a.data]
    IN  {MaskOver(a, keep) : keep \in {{1} \cap (1..n), 1..n}}
        \cup {MaskOver(rev, 1..n), MaskOver(MkArray(<<dRep2>>, 1), {1})}

Indices(a) ==
    {One(IxInt(0)), One(IxInt(3)), One(IxSlice(Some(1), None)), One(IxEllipsis),
     One(IxNewaxis), Tuple(<<IxInt(0), IxInt(1)>>),
     Tuple(<<IxInt(0), IxSlice(None, Some(-1))>>), Tuple(<<IxEllipsis, IxInt(0)>>),
     Tuple(<<IxEllipsis, IxEllipsis>>)}
    \cup {One(IxBool(m)) : m \in Masks(a)}

Init ==
    /\ A \in Starts
    /\ B = NoVal
    /\ call = Call("none", NoVal)
    /\ ret = NoRet
    /\ nops = 0

\* a call is made while the chain is short enough and no call of it has raised
CanCall == nops < MaxOps /\ ret.ok

\* the outcome of the call: a labeled array that is returned becomes the array
\* at hand
Returned ==
    /\ A' = IF ret'.ok /\ ret'.kind = "hfarray" THEN ret'.val ELSE A
    /\ nops' = nops + 1
    /\ UNCHANGED B

\* hfarray(buffer, dims=dims), hfarray(A, dims=dims)
Hfarray ==
    /\ CanCall
    /\ \E dims \in DimsArgs :
          \/ \E buffer \in Buffers :
                /\ call' = [Call("hfarray", buffer) EXCEPT !.list = <<dims>>]
                /\ ret' = hfarray_new(buffer, FALSE, dims)
          \/ /\ call' = [Call("hfarray", A) EXCEPT !.list = <<dims>>]
             /\ ret' = hfarray_new(A, TRUE, dims)
    /\ Returned

\* A.transpose(*order)
Transpose ==
    /\ CanCall
    /\ \E order \in Orders :
          /\ call' = [Call("transpose", A) EXCEPT !.order = order]
          /\ ret' = transpose(A, order)
    /\ Returned

\* A.reorder_dimensions(*order)
ReorderDimensions ==
    /\ CanCall
    /\ \E order \in DimOrders \cup {<<A.dims[k]>> : k \in 1..Len(A.dims)} :
          /\ call' = [Call("reorder_dimensions", A) EXCEPT !.dims = order]
          /\ ret' = reorder_dimensions(A, order)
    /\ Returned

\* A.t
MatrixTranspose ==
    /\ CanCall
    /\ call' = Call("t", A)
    /\ ret' = t(A)
    /\ Returned

\* A.squeeze(axis)
Squeeze ==
    /\ CanCall
    /\ \E axis \in AxisArgs :
          /\ call' = [Call("squeeze", A) EXCEPT !.axis = axis]
          /\ ret' = squeeze(A, axis)
    /\ Returned

\* A[x]
GetItem ==
    /\ CanCall
    /\ \E x \in Indices(A) :
          /\ call' = [Call("getitem", A) EXCEPT !.index = x]
          /\ ret' = __getitem__(A, x)
    /\ Returned

\* A.sum(axis, keepdims, dimerror), A.min(...), A.max(...)
Reduction ==
    /\ CanCall
    /\ \E func \in {"sum", "min", "max"}, axis \in ReductionAxes,
          keepdims \in BOOLEAN, dimerror \in BOOLEAN :
          /\ call' = [Call(func, A) EXCEPT !.axis = axis, !.keepdims = keepdims,
                                           !.dimerror = dimerror]
          /\ ret' = reduction(func, A, axis, keepdims, dimerror)
    /\ Returned

\* A.cumsum(axis), A.cumprod(axis)
Cumulative ==
    /\ CanCall
    /\ \E func \in {"cumsum", "cumprod"}, axis \in AxisArgs :
          /\ func = "cumprod" =>
                /\ Len(A.data) <= MaxFactor
                /\ \A g \in 1..Len(A.data) :
                      A.data[g] <= MaxFactor /\ 0 - A.data[g] <= MaxFactor
          /\ call' = [Call(func, A) EXCEPT !.axis = axis]
          /\ ret' = cumulative(func, A, axis)
    /\ Returned

\* A + other, A - other, A * other
Operator ==
    /\ CanCall
    /\ \E f \in {"add", "sub", "mul"}, other \in Others :
          /\ call' = [Call("operator", A) EXCEPT !.f = f, !.other = other.arr,
                                                 !.list = <<other.kind>>]
          /\ ret' = check_instance(f, A, other)
    /\ Returned

\* -A, abs(A)
Unary ==
    /\ CanCall
    /\ \E f \in {"neg", "abs"} :
          /\ call' = Call(f, A)
          /\ ret' = IF f = "neg" THEN __neg__(A) ELSE __abs__(A)
    /\ Returned

\* A.add_dim(dim, axis)
AddDim ==
    /\ CanCall
    /\ \E dim \in {dRep2, dFreq3, dRep1}, axis \in {-1, 4} :
          /\ call' = [Call("add_dim", A) EXCEPT !.dims = <<dim>>, !.pos = axis]
          /\ ret' = add_dim(A, dim, axis)
    /\ Returned

Next ==
    \/ Hfarray
    \/ Transpose
    \/ ReorderDimensions
    \/ MatrixTranspose
    \/ Squeeze
    \/ GetItem
    \/ Reduction
    \/ Cumulative
    \/ Operator
    \/ Unary
    \/ AddDim

Spec == Init /\ [][Next]_vars

\* C1: after any sequence of these operations, the array at hand and every
\* labeled array an operation returned have as many dimension descriptors as
\* the buffer has axes (and the buffer holds one element per coordinate).
C1_RankInvariant ==
    /\ Len(A.dims) = Len(A.shape)
    /\ Len(A.data) = Prod(A.shape)
    /\ (ret.ok /\ ret.kind = "hfarray") =>
          /\ Len(ret.val.dims) = Len(ret.val.shape)
          /\ Len(ret.val.data) = Prod(ret.val.shape)

\* two operations in a row that both changed the rank: the second returned an
\* array of another rank than the one it was called on, which itself is not
\* one of the arrays the chain may start from
C1_Witness ==
    /\ nops = MaxOps
    /\ ret.ok /\ ret.kind = "hfarray" /\ ret.val = A
    /\ Len(A.dims) # Len(call.self.dims)
    /\ Len(call.self.dims) > 0
    /\ call.self \notin Starts
    /\ call.op \in {"sum", "getitem", "squeeze", "add_dim", "operator"}
    /\ Prod(A.shape) > 1

-----------------------------------------------------------------------------
(* transpose by a permutation, then by its inverse *)

TransposePool == {dFreq, dRep, dRep2, dI, dJ}

\* the permutations of n axes, an axis given by its position or its negative
\* position, and the inverse of a permutation
Perms(n) == {p \in [1..n -> (0 - n)..(n - 1)] : IsPermutation(n, p)}
Inverse(n, p) == [k \in 1..n |-> (CHOOSE j \in 1..n : PyNorm(n, p[j]) = k - 1) - 1]

InitTranspose ==
    /\ A \in Arrays(TransposePool, MaxRank, 1)
    /\ B = NoVal
    /\ call = Call("none", NoVal)
    /\ ret = NoRet
    /\ nops = 0

\* B = A.transpose(*p), for a permutation p of one axis or more
TransposeBy ==
    /\ nops = 0
    /\ Len(A.shape) > 0
    /\ \E p \in Perms(Len(A.shape)) :
          /\ call' = [Call("transpose", A) EXCEPT !.order = p]
          /\ ret' = transpose(A, p)
    /\ B' = IF ret'.ok THEN ret'.val ELSE B
    /\ nops' = 1
    /\ UNCHANGED A

\* B.transpose(*inverse of p)
TransposeBack ==
    /\ nops = 1
    /\ ret.ok
    /\ call' = [Call("transpose_back", B) EXCEPT
                    !.order = Inverse(Len(B.shape), call.order)]
    /\ ret' = transpose(B, Inverse(Len(B.shape), call.order))
    /\ nops' = 2
    /\ UNCHANGED <<A, B>>

NextTranspose == TransposeBy \/ TransposeBack

SpecTranspose == InitTranspose /\ [][NextTranspose]_vars

\* the coordinate of A that position c of A.transpose(*p) shows
SourceCoord(p, c) ==
    [j \in 1..Len(p) |-> c[CHOOSE k \in 1..Len(p) : PyNorm(Len(p), p[k]) = j - 1]]

-----------------------------------------------------------------------------
(* Indexing on its own: an array and one indexing expression *)

\* a dimension with a generated name, and a sweep that a caller gave such a name
dAnon == Dim("DimAnonymous", "ANON1", <<0, 1>>)
dNamedAnon == Dim("DimSweep", "ANON1", <<5, 6>>)
IndexPool == {dFreq, dRep, dI, dJ, dAnon, dNamedAnon}
\* arrays of three dimensions, whatever the bound on the others
IndexExtra == {MkArray(<<dFreq, dI, dRep2>>, 1), MkArray(<<dI, dAnon, dFreq>>, 1)}
BasicItems ==
    {IxInt(i) : i \in {-1, 0, 2}}
    \cup {IxSlice(start, stop) : start \in {None, Some(1)}, stop \in {None, Some(-1)}}

\* tuples of at most n indices drawn from a set
RECURSIVE ItemSeqs(_, _)
ItemSeqs(items, n) ==
    IF n = 0 THEN {<<>>}
    ELSE LET shorter == ItemSeqs(items, n - 1)
         IN  shorter \cup
             {Append(s, ix) : s \in {u \in shorter : Len(u) = n - 1}, ix \in items}

InitIndex ==
    /\ A \in Arrays(IndexPool, MaxRank, 1) \cup IndexExtra
    /\ B = NoVal
    /\ call = Call("none", NoVal)
    /\ ret = NoRet
    /\ nops = 0

\* A[i], A[i:j], A[i, j:k], ...
IndexBasic ==
    /\ nops = 0
    /\ \E x \in {Tuple(s) : s \in ItemSeqs(BasicItems, MaxRank)}
                \cup {One(ix) : ix \in BasicItems} :
          /\ call' = [Call("getitem_basic", A) EXCEPT !.index = x]
          /\ ret' = __getitem__(A, x)
    /\ nops' = 1
    /\ UNCHANGED <<A, B>>

\* boolean labeled arrays over some of the dimensions of a, in any order: no
\* entry true, every other entry true, every entry true
BoolData(n) == {[g \in 1..n |-> 0], [g \in 1..n |-> g % 2], [g \in 1..n |-> 1]}
BoolMasks(a) ==
    UNION {{[dims |-> ds, shape |-> ShapeOf(ds), data |-> data] :
                data \in BoolData(Prod(ShapeOf(ds)))} :
              ds \in Collections(Range(a.dims), Len(a.dims)) \ {<<>>}}

\* A[M] for a boolean labeled array M
IndexBool ==
    /\ nops = 0
    /\ \E m \in BoolMasks(A) :
          /\ call' = [Call("getitem_bool", A) EXCEPT !.index = One(IxBool(m))]
          /\ ret' = __getitem__(A, One(IxBool(m)))
    /\ nops' = 1
    /\ UNCHANGED <<A, B>>

\* A[...], A[..., i], A[i, ..., j:k], A[..., ...], ...
EllipsisItems == {IxEllipsis, IxInt(0), IxInt(-1), IxInt(2), IxSlice(Some(1), None)}
EllipsisExprs ==
    {Tuple(s) : s \in {u \in ItemSeqs(EllipsisItems, MaxRank + 1) : Count(u, "ellipsis") > 0}}
    \cup {One(IxEllipsis)}
IndexEllipsis ==
    /\ nops = 0
    /\ \E x \in EllipsisExprs :
          /\ call' = [Call("getitem_ellipsis", A) EXCEPT !.index = x]
          /\ ret' = __getitem__(A, x)
    /\ nops' = 1
    /\ UNCHANGED <<A, B>>

NextIndex == IndexBasic \/ IndexBool \/ IndexEllipsis

SpecIndex == InitIndex /\ [][NextIndex]_vars

\* the indices of an expression with the missing trailing ones as full slices
Padded(a, items) == items \o Repeat(IxFull, Len(a.shape) - Len(items))
\* an expression of integers and slices that addresses a: no more indices than
\* axes, every integer within its axis
Addresses(a, items) ==
    /\ Len(items) <= Len(a.shape)
    /\ \A k \in 1..Len(items) :
          items[k].k = "int" => PyValidIndex(a.shape[k], items[k].i)
SlicePositions(full) == KeepPos(Len(full), {k \in 1..Len(full) : full[k].k = "slice"})
\* the element of a that the element at coordinate c of a[full] is
Selected(a, full, c) ==
    LET sp == SlicePositions(full)
    IN  At(a, [j \in 1..Len(full) |->
                  IF full[j].k = "int" THEN PyNorm(a.shape[j], full[j].i)
                  ELSE SliceLo(a.shape[j], full[j].sl)
                       + c[CHOOSE p \in 1..Len(sp) : sp[p] = j]])

\* r holds the block of a that the integers and slices select: one axis and
\* one dimension per position indexed by a slice, in the original order, each
\* dimension a descriptor of the same name and variant holding the slice of
\* the original coordinates, and no axis and no dimension for a position
\* indexed by an integer
SelectedBlock(a, items, r) ==
    LET full == Padded(a, items)
        sp == SlicePositions(full)
        out == r.val
    IN  /\ r.ok
        /\ Len(out.dims) = IF r.kind = "hfarray" THEN Len(sp) ELSE 0
        /\ Len(out.shape) = Len(sp)
        /\ \A p \in 1..Len(sp) :
              /\ r.kind = "hfarray" =>
                    /\ out.dims[p].name = a.dims[sp[p]].name
                    /\ out.dims[p].cls = a.dims[sp[p]].cls
                    /\ out.dims[p].data = PySlice(a.dims[sp[p]].data, full[sp[p]].sl)
              /\ out.shape[p] = SliceLen(a.shape[sp[p]], full[sp[p]].sl)
        /\ Len(out.data) = Prod(out.shape)
        /\ \A g \in 1..Len(out.data) :
              out.data[g] = Selected(a, full, Unflat(out.shape, g - 1))

\* C12 as stated: indexing by integers and slices returns a labeled array,
\* whatever the indices
C12_IndexReturnsArray ==
    (call.op = "getitem_basic" /\ Addresses(A, call.index.items)) =>
        /\ SelectedBlock(A, call.index.items, ret)
        /\ ret.kind = "hfarray"

\* C12, amended: indexing by integers and slices, the missing trailing
\* positions taken as full slices, returns the selected block: one dimension
\* per position indexed by a slice, in the original order, each a descriptor
\* of the same name and variant holding the slice of the original coordinates,
\* and no axis and no dimension for a position indexed by an integer; with an
\* integer at every position it returns the bare selected element, not an array
C12_IndexDims ==
    (call.op = "getitem_basic" /\ Addresses(A, call.index.items)) =>
        /\ SelectedBlock(A, call.index.items, ret)
        /\ ret.kind = IF SlicePositions(Padded(A, call.index.items)) = <<>>
                      THEN "scalar" ELSE "hfarray"

\* an integer and a proper slice together: a dimension dropped, one shortened
C12_Witness ==
    /\ call.op = "getitem_basic"
    /\ Addresses(A, call.index.items)
    /\ ret.kind = "hfarray"
    /\ Len(A.dims) = 2
    /\ Len(ret.val.dims) = 1
    /\ Len(ret.val.data) > 0
    /\ ret.val.dims[1] \notin Range(A.dims)

-----------------------------------------------------------------------------
(* C13: boolean indexing *)

\* the positions of the dimensions of a that the boolean array m owns
OwnedBy(a, m) == {k \in 1..Len(a.dims) : a.dims[k] \in Range(m.dims)}
TrueCount(m) == SumSeq(m.data)
WithoutPos(s, p) == Pick(s, (1..Len(s)) \ {p})

\* A[M] returns an array that keeps the dimensions of A that M does not own,
\* in their order and with their sizes, and has one more dimension, sized to
\* the number of true entries of M: the dimension of M with the selected
\* coordinates when M owns one, an anonymous dimension whose name is not
\* among taken when M owns several
BoolIndexed(a, m, r, taken) ==
    /\ r.ok
    /\ r.kind = "hfarray"
    /\ Len(r.val.dims) = Len(a.dims) - Cardinality(OwnedBy(a, m)) + 1
    /\ \E p \in 1..Len(r.val.dims) :
          LET d == r.val.dims[p]
          IN  /\ WithoutPos(r.val.dims, p) = Pick(a.dims, (1..Len(a.dims)) \ OwnedBy(a, m))
              /\ WithoutPos(r.val.shape, p) = Pick(a.shape, (1..Len(a.dims)) \ OwnedBy(a, m))
              /\ r.val.shape[p] = TrueCount(m)
              /\ Len(d.data) = TrueCount(m)
              /\ IF Len(m.dims) = 1
                 THEN /\ d.name = m.dims[1].name
                      /\ d.cls = m.dims[1].cls
                      /\ d.data = Pick(m.dims[1].data, {g \in 1..Len(m.data) : m.data[g] = 1})
                 ELSE /\ d.cls = "DimAnonymous"
                      /\ d.name \notin taken

\* C13 as stated: the name of the anonymous dimension differs from the name of
\* every dimension already in A
C13_FreshAmongAll ==
    call.op = "getitem_bool" =>
        BoolIndexed(A, call.index.items[1].m, ret, {A.dims[k].name : k \in 1..Len(A.dims)})

\* C13, amended: boolean indexing of A by M, whose dimensions are all
\* dimensions of A, returns A's dimensions that M does not own, in their
\* original order, plus one collapsed dimension sized to the number of true
\* entries of M; it keeps the name and variant of M's dimension, with the
\* selected coordinates, when M owns one, and is a new anonymous dimension
\* whose name differs from every anonymous dimension already in A when M owns
\* several
C13_FreshAmongAnonymous ==
    call.op = "getitem_bool" =>
        BoolIndexed(A, call.index.items[1].m, ret,
                    {A.dims[k].name : k \in OfClass(A.dims, "DimAnonymous")})

\* a boolean array over two of three dimensions, the anonymous one among them,
\* with some entries true and some false
C13_Witness ==
    /\ call.op = "getitem_bool"
    /\ ret.kind = "hfarray"
    /\ Len(A.dims) = 3
    /\ Len(call.index.items[1].m.dims) = 2
    /\ dAnon \in Range(call.index.items[1].m.dims)
    /\ Len(ret.val.data) \notin {0, Len(A.data)}
    /\ ret.val.dims[2].name = "ANON2"

-----------------------------------------------------------------------------
(* C14: Ellipsis *)

\* the expression with its one Ellipsis replaced by the full slices that are
\* needed for the expression to address every axis of a (none when the other
\* indices already do)
Replaced(a, x) ==
    LET i == FirstOf(x.items, "ellipsis")
        others == Len(x.items) - 1
        need == IF Len(a.shape) > others THEN Len(a.shape) - others ELSE 0
    IN  Tuple(SubSeq(x.items, 1, i - 1) \o Repeat(IxFull, need)
              \o SubSeq(x.items, i + 1, Len(x.items)))
ManyEllipsis(x) == Count(x.items, "ellipsis") > 1
RejectedAsIndexing(r) == ~r.ok /\ r.err = "IndexError" /\ r.val = NoVal

\* C14 as stated: an expression with one Ellipsis gives what the expression
\* with the full slices in its place gives, and one with more is rejected
C14_EllipsisAsSlices ==
    call.op = "getitem_ellipsis" =>
        IF ManyEllipsis(call.index) THEN RejectedAsIndexing(ret)
        ELSE ret = __getitem__(A, Replaced(A, call.index))

\* the result is the bare element: every axis is addressed by an integer
BareElement(r) == r.ok /\ r.kind = "scalar"

\* C14, amended: an expression with exactly one Ellipsis behaves as the same
\* expression with the Ellipsis replaced by as many full slices as are needed
\* to address every axis, except that where that expression gives the bare
\* element (an integer at every axis) the one with the Ellipsis gives the
\* labeled array of rank 0 holding that element; an expression with more than
\* one Ellipsis is rejected with an indexing error and returns no array
C14_EllipsisAsSlicesOrRankZero ==
    call.op = "getitem_ellipsis" =>
        IF ManyEllipsis(call.index) THEN RejectedAsIndexing(ret)
        ELSE LET r == __getitem__(A, Replaced(A, call.index))
             IN  IF BareElement(r)
                 THEN ret = Return("hfarray", [dims |-> <<>>, shape |-> <<>>, data |-> r.val.data])
                 ELSE ret = r

\* an Ellipsis between an integer and a slice of an array of three dimensions:
\* one full slice stands for it
C14_Witness ==
    /\ call.op = "getitem_ellipsis"
    /\ ~ManyEllipsis(call.index)
    /\ Len(call.index.items) = 3
    /\ call.index.items[2].k = "ellipsis"
    /\ Len(A.shape) = 3
    /\ ret.kind = "hfarray"
    /\ Len(ret.val.dims) = 2
    /\ Len(ret.val.data) > 0

-----------------------------------------------------------------------------
(* Construction on its own: a plain buffer, with and without dims *)

NewPool == {dFreq, dRep, dI, dJ}

\* the shapes of at most n axes of one or two elements each
RECURSIVE Shapes(_)
Shapes(n) ==
    IF n = 0 THEN {<<>>}
    ELSE LET shorter == Shapes(n - 1)
         IN  shorter \cup
             {Append(s, size) : s \in {u \in shorter : Len(u) = n - 1}, size \in 1..2}

\* A is the plain buffer, B the labeled array made of it
InitNew ==
    /\ A \in {Iota(shape, 1) : shape \in Shapes(MaxRank + 1)}
    /\ B = NoVal
    /\ call = Call("none", NoVal)
    /\ ret = NoRet
    /\ nops = 0

\* hfarray(buffer)
NewDefault ==
    /\ nops = 0
    /\ call' = Call("new_default", A)
    /\ ret' = hfarray_new(A, FALSE, NoDims)
    /\ B' = ret'.val
    /\ nops' = 1
    /\ UNCHANGED A

\* hfarray(buffer, dims=dims)
NewExplicit ==
    /\ nops = 0
    /\ \E dims \in Collections(NewPool, MaxRank + 1) :
          /\ call' = [Call("new_explicit", A) EXCEPT !.dims = dims]
          /\ ret' = hfarray_new(A, FALSE, Some(dims))
    /\ B' = ret'.val
    /\ nops' = 1
    /\ UNCHANGED A

NextNew == NewDefault \/ NewExplicit

SpecNew == InitNew /\ [][NextNew]_vars

\* the two errors of the constructor that tell of dimensions not fitting the
\* buffer
IsMismatchError(e) == e \in {"DimensionMismatchError", "HFArrayShapeDimsMismatchError"}
Holds(a, buffer) == a.shape = buffer.shape /\ a.data = buffer.data
IsDefault(d, cls, name, size) == d.cls = cls /\ d.name = name /\ Len(d.data) = size

\* C15: without dims a plain buffer of rank 0 gets the empty collection, of
\* rank 1 the default sweep sized to its axis, of rank 2 the default sweep and
\* the default repetition sized to its two axes, and of rank 3 or more fails
\* with a dimension mismatch error; with an explicit collection construction
\* succeeds exactly when the collection is as long as the buffer's rank, and
\* fails with the shape/dimension mismatch error otherwise
C15_Construction ==
    /\ call.op = "new_default" =>
          LET n == Len(A.shape)
          IN  IF n > 2 THEN ~ret.ok /\ IsMismatchError(ret.err)
              ELSE /\ ret.ok /\ ret.kind = "hfarray"
                   /\ Holds(B, A)
                   /\ Len(B.dims) = n
                   /\ n >= 1 => IsDefault(B.dims[1], "DimSweep", "freq", A.shape[1])
                   /\ n = 2 => IsDefault(B.dims[2], "DimRep", "rep", A.shape[2])
    /\ call.op = "new_explicit" =>
          /\ ret.ok <=> Len(call.dims) = Len(A.shape)
          /\ ret.ok => ret.kind = "hfarray" /\ Holds(B, A) /\ B.dims = call.dims
          /\ ~ret.ok => ret.err = "HFArrayShapeDimsMismatchError"

\* a buffer of two axes of different sizes, constructed without dims
C15_Witness ==
    /\ call.op = "new_default"
    /\ Len(A.shape) = 2
    /\ A.shape[1] # A.shape[2]
    /\ ret.ok
    /\ Len(B.dims) = 2

-----------------------------------------------------------------------------
(* The matrix transpose .t on its own *)

\* a sweep that carries the name of the row dimension
dSweepI == Dim("DimSweep", "i", <<7, 8>>)
MatrixPool == {dFreq, dRep2, dI, dJ, dSweepI}

InitMatrix ==
    /\ A \in Arrays(MatrixPool, MaxRank + 1, 1)
    /\ B = NoVal
    /\ call = Call("none", NoVal)
    /\ ret = NoRet
    /\ nops = 0

\* B = A.t
MatrixT ==
    /\ nops = 0
    /\ call' = Call("t", A)
    /\ ret' = t(A)
    /\ B' = ret'.val
    /\ nops' = 1
    /\ UNCHANGED A

NextMatrix == MatrixT

SpecMatrix == InitMatrix /\ [][NextMatrix]_vars

\* the coordinate c with its entries at positions i and j (1-based) exchanged
Swapped(c, i, j) == [c EXCEPT ![i] = c[j], ![j] = c[i]]

\* b is a with the row dimension at position i and the column dimension at
\* position j transposed
MatrixTransposed(a, b, i, j) ==
    /\ Len(b.dims) = Len(a.dims)
    /\ Len(b.shape) = Len(a.shape)
    /\ b.dims[i].cls = "DimMatrix_i" /\ b.dims[i].data = a.dims[j].data
    /\ b.dims[j].cls = "DimMatrix_j" /\ b.dims[j].data = a.dims[i].data
    /\ b.shape[i] = a.shape[j] /\ b.shape[j] = a.shape[i]
    /\ \A k \in (1..Len(a.dims)) \ {i, j} :
          b.dims[k] = a.dims[k] /\ b.shape[k] = a.shape[k]
    /\ Len(b.data) = Len(a.data)
    /\ \A g \in 1..Len(b.data) :
          b.data[g] = At(a, Swapped(Unflat(b.shape, g - 1), i, j))

\* C16: with a MatrixRow dimension at position i and a MatrixColumn dimension
\* at position j, .t returns an array of the same rank whose position i is a
\* MatrixRow dimension with the former column coordinates, whose position j is
\* a MatrixColumn dimension with the former row coordinates, whose element at
\* (.., q at i, .., p at j) is the original one at (.., p at i, .., q at j) and
\* whose other dimensions keep position, descriptor and size; lacking either
\* role, .t returns the array unchanged
C16_MatrixTranspose ==
    call.op = "t" =>
        /\ ret.ok /\ ret.kind = "hfarray"
        /\ IF OfClass(A.dims, "DimMatrix_i") = {} \/ OfClass(A.dims, "DimMatrix_j") = {}
           THEN B = A
           ELSE \A i \in OfClass(A.dims, "DimMatrix_i"), j \in OfClass(A.dims, "DimMatrix_j") :
                    MatrixTransposed(A, B, i, j)

-----------------------------------------------------------------------------
(* add_dim on its own: an array, a descriptor and a position *)

AddDimPool == {dFreq, dRep, dI}
\* descriptors to add: new ones of one, two and three coordinates, and one
\* that an array may hold already, sampled differently
AddDimArgs == {dRep1, dRep2, dJ, dFreq3}

InitAddDim ==
    /\ A \in Arrays(AddDimPool, MaxRank, 1)
    /\ B = NoVal
    /\ call = Call("none", NoVal)
    /\ ret = NoRet
    /\ nops = 0

\* B = A.add_dim(dim, axis)
AddDimAt ==
    /\ nops = 0
    /\ \E dim \in AddDimArgs, axis \in (0 - 2)..(MaxRank + 1) :
          /\ call' = [Call("add_dim", A) EXCEPT !.dims = <<dim>>, !.pos = axis]
          /\ ret' = add_dim(A, dim, axis)
    /\ B' = ret'.val
    /\ nops' = 1
    /\ UNCHANGED A

NextAddDim == AddDimAt

SpecAddDim == InitAddDim /\ [][NextAddDim]_vars

Present(dims, dim) == \E k \in 1..Len(dims) : DimEq(dims[k], dim)
\* the position (1-based) at which list.insert(i, e) puts e
InsertedAt(n, i) == 1 + (IF i < 0 THEN (IF n + i < 0 THEN 0 ELSE n + i)
                         ELSE (IF i > n THEN n ELSE i))
Min(u, v) == IF u < v THEN u ELSE v

\* C17: add_dim(dim, axis) returns the array unchanged when dim is present by
\* (name, variant); otherwise it returns an array of rank one higher whose
\* collection is the original with dim inserted at position min(axis, rank),
\* whose size along that position is the number of coordinates of dim, and
\* whose every slice along the new axis equals the original array
C17_AddDim ==
    call.op = "add_dim" =>
        LET dim == call.dims[1]
            n == Len(A.shape)
            p == InsertedAt(n, Min(call.pos, n))
        IN  /\ ret.ok /\ ret.kind = "hfarray"
            /\ IF Present(A.dims, dim) THEN B = A
               ELSE /\ Len(B.shape) = n + 1
                    /\ B.dims = PyInsert(A.dims, Min(call.pos, n), dim)
                    /\ B.shape[p] = Len(dim.data)
                    /\ \A k \in (1..(n + 1)) \ {p} :
                          B.shape[k] = A.shape[IF k < p THEN k ELSE k - 1]
                    /\ Len(B.data) = Prod(B.shape)
                    /\ \A g \in 1..Len(B.data) :
                          B.data[g] = At(A, WithoutPos(Unflat(B.shape, g - 1), p))

\* the same for a position that is not negative
C17_NonNegative == call.pos >= 0 => C17_AddDim

-----------------------------------------------------------------------------
(* replace_dim and remove_rep *)

\* replace_dim(dims, olddim, newdim): every member named as olddim gives way
replace_dim(dims, olddim, newdim) ==
    [k \in 1..Len(dims) |-> IF olddim.name = dims[k].name THEN newdim ELSE dims[k]]

\* _hfarray.replace_dim(olddim, newdim): olddim a descriptor or a name, newdim
\* a descriptor or, with a name, a variant that olddim is turned into; the
\* array with its collection replaced, or the error of dims_index
hfarray_replace_dim(self, olddim, newdim) ==
    IF olddim.k = "name" /\ ~HasName(self.dims, olddim.name) THEN Raise(ErrNoName)
    ELSE LET old == IF olddim.k = "name"
                    THEN self.dims[dims_index(self.dims, olddim.name) + 1]
                    ELSE olddim.dim
             new == IF olddim.k = "name" /\ newdim.k = "cls"
                    THEN Dim(newdim.cls, old.name, old.data)
                    ELSE newdim.dim
         IN  Return("dims", set_dims(self, replace_dim(self.dims, old, new)))

\* remove_rep(data, newdimname)
remove_rep(data, newdimname) ==
    LET order == KeepPos(Len(data.dims), OfClass(data.dims, "DimRep"))
    IN  IF order = <<>> THEN hfarray_new(data, TRUE, Some(data.dims))
        ELSE
        LET first == order[1] - 1
            last == order[Len(order)] - 1
            dims == [k \in 1..Len(order) |-> data.dims[order[k]]]
            newdata == reorder_dimensions(data, PyTake(data.dims, first) \o dims)
            shapes == [k \in 1..Len(order) |-> data.shape[order[k]]]
            repsize == Prod(shapes)
            newshape == PyTake(data.shape, first) \o <<repsize>> \o PyDrop(data.shape, last + 1)
            newdims == PyTake(data.dims, first) \o <<Dim("DimRep", newdimname, PyRange(repsize))>>
                       \o PyDrop(data.dims, last + 1)
        IN  IF ~newdata.ok THEN newdata
            ELSE IF Prod(newshape) # Len(data.data) THEN Raise("ValueError")
            ELSE hfarray_new(nd_reshape(NdArray(data.shape, data.data), newshape),
                             FALSE, Some(newdims))

-----------------------------------------------------------------------------
(* The operations that build or change a dimension collection, each applied *)
(* to an array whose collection holds no identity twice                     *)

CollPool == {dFreq, dRep, dRep2, dI}
\* the descriptors handed to the operations: those of the pool, and the
\* identities of dFreq and dRep sampled differently
CollArgs == CollPool \cup {dFreq3, dRep1}

InitColl ==
    /\ A \in Arrays(CollPool, MaxRank, 1)
    /\ B = NoVal
    /\ call = Call("none", NoVal)
    /\ ret = NoRet
    /\ nops = 0

\* B = hfarray(buffer of A, dims=dims), dims without a repeated identity
CollNew ==
    /\ nops = 0
    /\ \E dims \in Collections(CollArgs, MaxRank) :
          /\ call' = [Call("new", A) EXCEPT !.dims = dims]
          /\ ret' = hfarray_new(NdArray(A.shape, A.data), FALSE, Some(dims))
    /\ B' = ret'.val
    /\ nops' = 1
    /\ UNCHANGED A

\* A.dims = value, value as long as the rank and without a repeated identity
CollSetDims ==
    /\ nops = 0
    /\ \E value \in {c \in Collections(CollArgs, MaxRank) : Len(c) = Len(A.dims)} :
          /\ call' = [Call("set_dims", A) EXCEPT !.dims = value]
          /\ B' = set_dims(A, value)
    /\ ret' = Return("none", NoVal)
    /\ nops' = 1
    /\ UNCHANGED A

\* A.replace_dim(olddim, newdim)
CollReplaceDim ==
    /\ nops = 0
    /\ \E olddim \in {AxDim(d) : d \in CollPool} \cup {AxName("freq"), AxName("rep2")},
          newdim \in {AxDim(d) : d \in CollArgs} \cup {AxCls("DimRep"), AxCls("DimSweep")} :
          /\ olddim.k = "dim" => newdim.k = "dim"
          /\ call' = [Call("replace_dim", A) EXCEPT !.list = <<olddim, newdim>>]
          /\ ret' = hfarray_replace_dim(A, olddim, newdim)
    /\ B' = ret'.val
    /\ nops' = 1
    /\ UNCHANGED A

\* A.add_dim(dim, axis)
CollAddDim ==
    /\ nops = 0
    /\ \E dim \in CollArgs, axis \in 0..1 :
          /\ call' = [Call("add_dim", A) EXCEPT !.dims = <<dim>>, !.pos = axis]
          /\ ret' = add_dim(A, dim, axis)
    /\ B' = ret'.val
    /\ nops' = 1
    /\ UNCHANGED A

\* make_same_dims(A, other): the first of the two aligned arrays
CollAlign ==
    /\ nops = 0
    /\ \E other \in Arrays(CollArgs \ {dFreq3}, MaxRank, 1) :
          /\ call' = [Call("make_same_dims", A) EXCEPT !.other = other]
          /\ ret' = make_same_dims(A, other)[1]
    /\ B' = ret'.val
    /\ nops' = 1
    /\ UNCHANGED A

\* A[M] for a boolean labeled array M
CollBoolIndex ==
    /\ nops = 0
    /\ \E m \in BoolMasks(A) :
          /\ call' = [Call("getitem_bool", A) EXCEPT !.index = One(IxBool(m))]
          /\ ret' = __getitem__(A, One(IxBool(m)))
    /\ B' = ret'.val
    /\ nops' = 1
    /\ UNCHANGED A

\* remove_rep(A, newdimname)
CollRemoveRep ==
    /\ nops = 0
    /\ \E newdimname \in {"AllReps", "rep"} :
          /\ call' = [Call("remove_rep", A) EXCEPT !.f = newdimname]
          /\ ret' = remove_rep(A, newdimname)
    /\ B' = ret'.val
    /\ nops' = 1
    /\ UNCHANGED A

NextColl ==
    \/ CollNew
    \/ CollSetDims
    \/ CollReplaceDim
    \/ CollAddDim
    \/ CollAlign
    \/ CollBoolIndex
    \/ CollRemoveRep

SpecColl == InitColl /\ [][NextColl]_vars

\* C18: whichever operation builds or changes a dimension collection
\* (construction with explicit dimensions, assignment to .dims, replace_dim,
\* add_dim, alignment by dims_union, boolean indexing, remove_rep), no
\* collection of a labeled array holds two descriptors with the same
\* (name, variant)
C18_NoDuplicateIdentity == NoDuplicate(A.dims) /\ NoDuplicate(B.dims)

-----------------------------------------------------------------------------
(* remove_rep on its own *)

RepPool == {dFreq, dRep, dRep2, dI}

InitRemoveRep ==
    /\ A \in Arrays(RepPool, MaxRank + 1, 1)
    /\ B = NoVal
    /\ call = Call("none", NoVal)
    /\ ret = NoRet
    /\ nops = 0

\* B = remove_rep(A, newdimname)
RemoveRep ==
    /\ nops = 0
    /\ \E newdimname \in {"AllReps", "freq"} :
          /\ call' = [Call("remove_rep", A) EXCEPT !.f = newdimname]
          /\ ret' = remove_rep(A, newdimname)
    /\ B' = ret'.val
    /\ nops' = 1
    /\ UNCHANGED A

NextRemoveRep == RemoveRep

SpecRemoveRep == InitRemoveRep /\ [][NextRemoveRep]_vars

NonReps(a) == (1..Len(a.dims)) \ OfClass(a.dims, "DimRep")
Adjacent(positions) ==
    \A k, l \in positions : \A between \in k..l : between \in positions

\* b is a with its Repetition dimensions collapsed into one named name
RepsCollapsed(a, b, name) ==
    LET reps == OfClass(a.dims, "DimRep")
        size == Prod(Pick(a.shape, reps))
    IN  /\ Len(b.data) = Len(a.data)
        /\ Len(b.dims) = Len(b.shape)
        /\ \E p \in 1..Len(b.dims) :
              /\ OfClass(b.dims, "DimRep") = {p}
              /\ b.dims[p].name = name
              /\ b.shape[p] = size
              /\ Len(b.dims[p].data) = size
        /\ Pick(b.dims, NonReps(b)) = Pick(a.dims, NonReps(a))
        /\ Pick(b.shape, NonReps(b)) = Pick(a.shape, NonReps(a))

\* C19: for an array with one or more Repetition dimensions, at any positions,
\* remove_rep returns an array with as many elements in which one Repetition
\* dimension named newdimname, sized to the product of the Repetition sizes,
\* stands for all of them, every other dimension is kept with its size and
\* the collection is as long as the rank; for an array without a Repetition
\* dimension it returns an array with the same dimensions and shape
C19_RemoveRep ==
    call.op = "remove_rep" =>
        /\ ret.ok /\ ret.kind = "hfarray"
        /\ IF OfClass(A.dims, "DimRep") = {}
           THEN B.dims = A.dims /\ B.shape = A.shape
           ELSE RepsCollapsed(A, B, call.f)

\* the same for Repetition dimensions that stand next to each other
C19_AdjacentReps == Adjacent(OfClass(A.dims, "DimRep")) => C19_RemoveRep

-----------------------------------------------------------------------------
(* Alignment and the operators on array objects: which object each statement *)
(* creates and which it changes. A is the store of array objects, each with  *)
(* its own dims and shape; the operands are objects 1 and 2, and B holds     *)
(* them as they were before the call.                                        *)

\* a new array object; the object made last
Alloc(h, o) == Append(h, o)
Newest(h) == Len(h)

\* a faulty variant of change_shape_in: the new shape and dims are assigned to
\* x, not to a view of it
change_shape_in_place(h, x, newdims) ==
    LET moved == transpose(h[x], NewOrder(h[x], newdims))
        newselfshape == NewSelfShape(h[x], newdims)
    IN  IF ~moved.ok \/ Prod(newselfshape) # Prod(moved.val.shape) THEN h
        ELSE [h EXCEPT ![x] = set_dims(nd_reshape(moved.val, newselfshape), newdims)]

\* change_shape(x, newdims), statement by statement: newself = x.view();
\* newself = newself.transpose(*neworder); newself.shape = ...;
\* newself.dims = ... (the store as it is left, also when a statement raises)
change_shape_in(h, x, newdims) ==
    LET h1 == Alloc(h, view(h[x]).val)
        moved == transpose(h1[Newest(h1)], NewOrder(h[x], newdims))
        newselfshape == NewSelfShape(h[x], newdims)
    IN  IF ~moved.ok THEN h1
        ELSE LET h2 == Alloc(h1, moved.val)
             IN  IF Prod(newselfshape) # Prod(moved.val.shape) THEN h2
                 ELSE [h2 EXCEPT ![Newest(h2)] =
                          set_dims(nd_reshape(@, newselfshape), newdims)]

\* make_same_dims(A, B) for two labeled arrays: change_shape on each in turn
make_same_dims_in(h, a, b) ==
    LET newdims == dims_union(<<h[a], h[b]>>)
        h1 == change_shape_in(h, a, newdims)
    IN  IF ~change_shape(h[a], newdims).ok THEN h1
        ELSE change_shape_in(h1, b, newdims)

\* check_instance(func)(self, other) for a labeled other: other is made an
\* array of the class of self, both are aligned, func makes the result
check_instance_in(h, f, self, other) ==
    LET o == hfarray_new(h[other], TRUE, None)
        h1 == Alloc(h, o.val)
        h2 == make_same_dims_in(h1, self, Newest(h1))
        r == check_instance(f, h[self], Labeled(h[other]))
    IN  IF ~o.ok THEN h
        ELSE IF ~r.ok THEN h2
        ELSE Alloc(h2, r.val)

InitFrame ==
    /\ \E x \in Arrays(ArithPoolA, MaxRank, 1), y \in Arrays(ArithPoolB, MaxRank, 100) :
          A = <<x, y>>
    /\ B = A
    /\ call = Call("none", NoVal)
    /\ ret = NoRet
    /\ nops = 0

\* change_shape(x, newdims) for the first operand, newdims the dimensions of
\* the other or those of both
FrameChangeShape ==
    /\ nops = 0
    /\ \E newdims \in {A[2].dims, dims_union(<<A[1], A[2]>>)} :
          /\ call' = [Call("change_shape", A[1]) EXCEPT !.dims = newdims]
          /\ ret' = change_shape(A[1], newdims)
          /\ A' = change_shape_in(A, 1, newdims)
    /\ nops' = 1
    /\ UNCHANGED B

\* make_same_dims(x, y)
FrameMakeSameDims ==
    /\ nops = 0
    /\ call' = [Call("make_same_dims", A[1]) EXCEPT !.other = A[2]]
    /\ ret' = make_same_dims(A[1], A[2])[2]
    /\ A' = make_same_dims_in(A, 1, 2)
    /\ nops' = 1
    /\ UNCHANGED B

\* x + y, x - y, x * y
FrameOperator ==
    /\ nops = 0
    /\ \E f \in {"add", "sub", "mul"} :
          /\ call' = [Call("operator", A[1]) EXCEPT !.f = f, !.other = A[2]]
          /\ ret' = check_instance(f, A[1], Labeled(A[2]))
          /\ A' = check_instance_in(A, f, 1, 2)
    /\ nops' = 1
    /\ UNCHANGED B

NextFrame == FrameChangeShape \/ FrameMakeSameDims \/ FrameOperator

SpecFrame == InitFrame /\ [][NextFrame]_vars

\* C20: change_shape, make_same_dims and the binary operators leave their
\* operands as they were: each has the dimensions, the shape and the elements
\* it had before the call, whatever transposition and size-1 axes the
\* alignment took
C20_OperandsUnchanged == A[1] = B[1] /\ A[2] = B[2]

\* an operator has returned after aligning its operands: the aligned first
\* operand is a new object with another shape than the operand
C20_Witness ==
    /\ call.op = "operator"
    /\ ret.ok
    /\ A[Newest(A)] = ret.val
    /\ \E k \in 3..Len(A) :
          /\ A[k].data = B[1].data
          /\ A[k].dims = ret.val.dims
          /\ A[k].shape # B[1].shape
    /\ Len(B[1].shape) = 2 /\ Len(B[2].shape) = 2

-----------------------------------------------------------------------------
(* ReadSPFileFormat.group_blocks (hftools/file_formats/spdata.py), a        *)
(* generator run step by step. Here A is the stream of tokens it reads, B   *)
(* its frame (the local variables and the place it is at), ret what it has  *)
(* yielded so far and whether it raised, nops the number of steps taken.    *)

Tags == {"Comment", "Header", "Data", "ENDPROP"}
\* Token(tag, lineno, rad); the text of a line is stood for by its number
Token(tag, lineno) == [lineno |-> lineno, token |-> tag, rad |-> lineno]

\* the streams of one to n tokens, the k-th from line k
RECURSIVE TagSeqs(_)
TagSeqs(n) ==
    IF n = 0 THEN {<<>>}
    ELSE LET shorter == TagSeqs(n - 1)
         IN  shorter \cup
             {Append(s, tag) : s \in {u \in shorter : Len(u) = n - 1}, tag \in Tags}
Streams(n) ==
    {[k \in 1..Len(s) |-> Token(s[k], k)] : s \in TagSeqs(n) \ {<<>>}}

NoToken == Token("", 0)
\* map(to_numeric, rad.split("\t")): the row of numbers read from a data
\* line, a line standing for one column
Row(rad) == <<rad>>
Frame(pc, pos, tok, running, comments, header, rows) ==
    [pos |-> pos, lineno |-> tok.lineno, token |-> tok.token, rad |-> tok.rad,
     pc |-> pc, running |-> running, comments |-> comments, header |-> header,
     rows |-> rows]
Yielded(blocks) == [kind |-> "blocks", ok |-> TRUE, val |-> blocks, err |-> "none"]

InitBlocks ==
    /\ A \in Streams(MaxTokens)
    /\ B = Frame("start", 0, NoToken, TRUE, <<>>, <<>>, <<>>)
    /\ call = Call("group_blocks", NoVal)
    /\ ret = Yielded(<<>>)
    /\ nops = 0

\* stream.next(): the stream has a token left (StopIteration otherwise)
HasNext == B.pos < Len(A)
\* token, lineno, rad = stream.next()
TakeNext(frame) ==
    LET tok == A[frame.pos + 1]
    IN  [frame EXCEPT !.token = tok.token, !.lineno = tok.lineno, !.rad = tok.rad,
                      !.pos = @ + 1]
\* out = [comments, header, data]
Out == <<B.comments, B.header, B.rows>>
Raised(frame) ==
    /\ B' = [frame EXCEPT !.pc = "raised"]
    /\ ret' = [ret EXCEPT !.ok = FALSE, !.err = "SPDataIOError"]
Stepped == nops' = nops + 1 /\ UNCHANGED <<A, call>>

\* the first stream.next(), running = True
Start ==
    /\ B.pc = "start"
    /\ HasNext
    /\ B' = [TakeNext(B) EXCEPT !.pc = "loop"]
    /\ UNCHANGED ret
    /\ Stepped

\* while running: comments = [], header = [], data = []
BeginBlock ==
    /\ B.pc = "loop"
    /\ B.running
    /\ B' = [B EXCEPT !.pc = "comments", !.comments = <<>>, !.header = <<>>, !.rows = <<>>]
    /\ UNCHANGED ret
    /\ Stepped

\* while token == "Comment": comments.append(rad), the next token or
\* "File can not end in comments"
ReadComment ==
    /\ B.pc = "comments"
    /\ B.token = "Comment"
    /\ LET frame == [B EXCEPT !.comments = Append(@, B.rad)]
       IN  IF HasNext THEN B' = TakeNext(frame) /\ UNCHANGED ret
           ELSE Raised(frame)
    /\ Stepped

\* if token == "ENDPROP": yield out, the next token or running = False; continue
EndProp ==
    /\ B.pc = "comments"
    /\ B.token = "ENDPROP"
    /\ ret' = [ret EXCEPT !.val = Append(@, Out)]
    /\ B' = IF HasNext THEN [TakeNext(B) EXCEPT !.pc = "loop"]
            ELSE [B EXCEPT !.pc = "loop", !.running = FALSE]
    /\ Stepped

\* a faulty variant of ReadHeader: the end of the stream after a header stops
\* the loop as it does after a data row
ReadHeader_to_the_end ==
    /\ B.pc = "comments"
    /\ B.token = "Header"
    /\ LET frame == [B EXCEPT !.pc = "data", !.header = Append(@, B.rad)]
       IN  B' = IF HasNext THEN TakeNext(frame) ELSE [frame EXCEPT !.running = FALSE]
    /\ UNCHANGED ret
    /\ Stepped

\* if token == "Header": header.append(rad), the next token or "File can not
\* end in header"
ReadHeader ==
    /\ B.pc = "comments"
    /\ B.token = "Header"
    /\ LET frame == [B EXCEPT !.pc = "data", !.header = Append(@, B.rad)]
       IN  IF HasNext THEN B' = TakeNext(frame) /\ UNCHANGED ret
           ELSE Raised(frame)
    /\ Stepped

\* else: raise SPDataIOError("Missing header")
MissingHeader ==
    /\ B.pc = "comments"
    /\ B.token \notin {"Comment", "ENDPROP", "Header"}
    /\ Raised(B)
    /\ Stepped

\* while running and token == "Data": data.append(...), the next token or
\* running = False
ReadData ==
    /\ B.pc = "data"
    /\ B.running /\ B.token = "Data"
    /\ LET frame == [B EXCEPT !.rows = Append(@, Row(B.rad))]
       IN  B' = IF HasNext THEN TakeNext(frame) ELSE [frame EXCEPT !.running = FALSE]
    /\ UNCHANGED ret
    /\ Stepped

\* yield out, at the end of the loop body
YieldBlock ==
    /\ B.pc = "data"
    /\ ~(B.running /\ B.token = "Data")
    /\ ret' = [ret EXCEPT !.val = Append(@, Out)]
    /\ B' = [B EXCEPT !.pc = "loop"]
    /\ Stepped

\* running is false: the generator returns
Finish ==
    /\ B.pc = "loop"
    /\ ~B.running
    /\ B' = [B EXCEPT !.pc = "done"]
    /\ UNCHANGED ret
    /\ Stepped

NextBlocks ==
    \/ Start
    \/ BeginBlock
    \/ ReadComment
    \/ EndProp
    \/ ReadHeader
    \/ MissingHeader
    \/ ReadData
    \/ YieldBlock
    \/ Finish

\* the generator is run to its end: a step that can be taken is taken
SpecBlocks == InitBlocks /\ [][NextBlocks]_vars /\ WF_vars(NextBlocks)


Finished == B.pc \in {"done", "raised"}
TagAt(k) == A[k].token
\* the stream ends while comments are read, ends right after a header, or
\* has a token that is no header where the header of a block is required
EndsInComments == TagAt(Len(A)) = "Comment"
EndsInHeader == TagAt(Len(A)) = "Header"
HeaderMissing ==
    \E k \in 1..Len(A) :
        /\ TagAt(k) = "Data"
        /\ k = 1 \/ TagAt(k - 1) \in {"Comment", "ENDPROP"}

\* a line of text or a row of numbers, with the kind of token it is from
Entry(tag, v) == IF tag = "Data" THEN <<tag, "", v>> ELSE <<tag, v, <<>>>>
\* the Comment, Header and Data tokens of a stream, in stream order
RECURSIVE Content(_)
Content(s) ==
    IF s = <<>> THEN <<>>
    ELSE LET tok == Head(s)
             rest == Content(Tail(s))
         IN  CASE tok.token = "ENDPROP" -> rest
               [] tok.token = "Data" -> <<Entry("Data", Row(tok.rad))>> \o rest
               [] OTHER -> <<Entry(tok.token, tok.rad)>> \o rest
Tagged(tag, list) == [k \in 1..Len(list) |-> Entry(tag, list[k])]
\* the comments, header and data of blocks, in yield order
RECURSIVE Flattened(_)
Flattened(blocks) ==
    IF blocks = <<>> THEN <<>>
    ELSE LET out == Head(blocks)
         IN  Tagged("Comment", out[1]) \o Tagged("Header", out[2])
                 \o Tagged("Data", out[3]) \o Flattened(Tail(blocks))
\* the token before the run of Data tokens that token k is part of
RECURSIVE BeforeRun(_)
BeforeRun(k) == IF k > 1 /\ TagAt(k - 1) = "Data" THEN BeforeRun(k - 1) ELSE k - 1
\* every data row of a block is the row of a Data token whose run follows
\* the Header token that is the header of the block
RowsUnderHeader(out) ==
    \A r \in 1..Len(out[3]) :
        \E k \in 1..Len(A) :
            /\ TagAt(k) = "Data" /\ Row(A[k].rad) = out[3][r]
            /\ BeforeRun(k) >= 1
            /\ TagAt(BeforeRun(k)) = "Header"
            /\ out[2] = <<A[BeforeRun(k)].rad>>
Outcome ==
    IF B.pc = "raised"
    THEN /\ ~ret.ok /\ ret.err = "SPDataIOError"
         /\ EndsInComments \/ EndsInHeader \/ HeaderMissing
    ELSE /\ ret.ok
         /\ ~(EndsInComments \/ EndsInHeader \/ HeaderMissing)
         /\ B.pos = Len(A)
         /\ \A b \in 1..Len(ret.val) :
                /\ Len(ret.val[b][2]) <= 1
                /\ RowsUnderHeader(ret.val[b])
         /\ Flattened(ret.val) = Content(A)

\* C21: on every non-empty stream of Comment, Header, Data and ENDPROP
\* tokens group_blocks comes to an end, and at its end it has either raised
\* SPDataIOError, the stream ending in comments, ending right after a header
\* or having a token that is no header where a header is required, or it has
\* taken every token and yielded blocks of at most one header each whose
\* comments, header and data in yield order are the Comment, Header and Data
\* tokens of the stream in stream order, every data row in the block of the
\* Header token just before its run of Data tokens.
C21_GroupBlocks == <>Finished /\ [](Finished => Outcome)
\* a stream was read to its end and gave a block of comments closed by
\* ENDPROP and a block with a header and a data row
C21_Witness ==
    /\ B.pc = "done"
    /\ Len(ret.val) >= 2
    /\ \E b \in 1..Len(ret.val) : ret.val[b][1] # <<>> /\ ret.val[b][2] = <<>>
    /\ \E b \in 1..Len(ret.val) : ret.val[b][2] # <<>> /\ ret.val[b][3] # <<>>

====
